---- MODULE Spec2Model ----
(***************************************************************************)
(* The collection-path resolver, its cache and the classification batcher  *)
(* of the two organizer scripts, src/organize.py and src/organizer.py;     *)
(* the keyword clustering, multi-label assignment and retrying fetch of    *)
(* src/keyword_classifier.py; and the frequency merge of                   *)
(* src/keyword_analysis/keyword_top20_analyzer.py.                         *)
(*                                                                         *)
(* Python strings are sequences of atoms: every atom is one character,     *)
(* except "Unclassified", "fake_", "fake", "root", "_" and the remote      *)
(* keys "K1".."K9", which stand for the character runs they spell.  None   *)
(* and the remote store's False are values no string equals.               *)
(***************************************************************************)
EXTENDS Integers, Sequences, FiniteSets, TLC

VARIABLES
    script,     \* which script runs: "organize" (organize.py) or "organizer" (organizer.py)
    DRY_RUN,    \* the module constant DRY_RUN of the running script
    pc,         \* position of main()
    cache,      \* the in-memory cache dict (cache / colls_cache)
    file,       \* the cache file CACHE_FILE
    remote,     \* the remote folder tree: set of [key, name, parent]
    nextKey,    \* number of keys the remote store has handed out
    calls,      \* remote calls issued by the last step, in order
    last,       \* the last call of the path resolver
    prev,       \* the call of the path resolver before it
    nCalls,     \* number of resolver calls made so far
    items,      \* the remote items carrying the tag gemini_read: [tags, colls, note]
    fetched,    \* the items as the listing returned them (snapshot at fetch time)
    todo,       \* todo_items / todo_list: the local item dicts [id, tags, colls]
    batch_idx,  \* the batch loop's index
    batches,    \* the batches the loop has sliced so far
    classifications, \* the classifier's answer for the current batch: entries [k, v]
    pos,        \* number of entries of the answer already iterated
    response,   \* what the classifier call of the current batch came back with
    applied,    \* what the loop did for each iterated entry of the current batch
    organized_count, \* organize.py's counter
    faults,     \* remote and file faults injected so far
    raisedIn,   \* the batches in which the per-index except clause caught an exception
    keywords_list,      \* keyword_classifier.py: one keyword list per document
    keyword_list,       \* list(all_keywords), in the iteration order of the set
    similarity,         \* sim and string similarity of every pair, in loop order
    keyword_pairs,      \* the gated pairs (sim, kw1, kw2) still to be united, sorted
    keyword_to_cluster, \* keyword -> cluster id
    clusters,           \* cluster id -> member list
    merges,             \* number of merges the union pass has performed
    categories,         \* category name -> members, as hierarchical_clustering returns it
    threshold,          \* the two thresholds of the running clustering
    runs,               \* the clusterings finished over the current documents
    probe               \* arguments, progress and result of the function under way

resolverVars == <<cache, file, remote, nextKey, calls, last, prev, nCalls>>
runVars == <<items, fetched, todo, batch_idx, batches, classifications, response, pos,
             applied, organized_count, faults, raisedIn>>
kwVars == <<keywords_list, keyword_list, similarity, keyword_pairs, keyword_to_cluster,
           clusters, merges, categories, threshold, runs, probe>>
vars == <<script, DRY_RUN, pc, resolverVars, runVars, kwVars>>

----------------------------------------------------------------------------
(* Values *)

None == <<"#None">>
FalseVal == <<"#False">>
EmptyDict == [n \in {} |-> None]

\* Python truthiness of a string-or-None value
Truthy(x) == x # None /\ x # FalseVal /\ x # <<>>

KeyNames == <<"K1", "K2", "K3", "K4", "K5", "K6", "K7", "K8", "K9">>

\* the remote store can hand out at most MaxKeys keys; afterwards creation fails
MaxKeys == 5

\* number of resolver calls explored from one start state
MaxCalls == 2

\* number of items carrying the tag gemini_read
MaxItems == 8

\* number of remote or file faults in one run of main()
MaxFaults == 1

BATCH_SIZE == 5
AUTO_TAG_NAME == "auto_organized"

----------------------------------------------------------------------------
(* str.strip, str.split('/') and the list comprehension over the segments *)

RECURSIVE LStrip(_)
LStrip(s) == IF s # <<>> /\ Head(s) = " " THEN LStrip(Tail(s)) ELSE s

RECURSIVE RStrip(_)
RStrip(s) == IF s # <<>> /\ s[Len(s)] = " " THEN RStrip(SubSeq(s, 1, Len(s) - 1)) ELSE s

Strip(s) == RStrip(LStrip(s))

\* path.split('/'): the segments between the separators, empty ones included
RECURSIVE SplitSlash(_, _)
SplitSlash(s, cur) ==
    IF s = <<>> THEN <<cur>>
    ELSE IF Head(s) = "/" THEN <<cur>> \o SplitSlash(Tail(s), <<>>)
    ELSE SplitSlash(Tail(s), Append(cur, Head(s)))

RECURSIVE StripNonEmpty(_)
StripNonEmpty(segs) ==
    IF segs = <<>> THEN <<>>
    ELSE IF Strip(Head(segs)) # <<>>
         THEN <<Strip(Head(segs))>> \o StripNonEmpty(Tail(segs))
         ELSE StripNonEmpty(Tail(segs))

\* [p.strip() for p in path.split('/') if p.strip()]
Parts(path) == StripNonEmpty(SplitSlash(path, <<>>))

\* "Unclassified" in path
ContainsUnclassified(path) == \E i \in 1..Len(path) : path[i] = "Unclassified"

\* key.startswith("fake_") / key.startswith("fake")
IsPlaceholder(k) == Len(k) >= 1 /\ k[1] = "fake_"

----------------------------------------------------------------------------
(* Remote folder store *)

CreateOutcomes == {"ok", "raise", "nosucc"}

\* one remote call: op is "list", "create", "addto" or "tag"; for a create, name is
\* the folder name, arg the payload's parentCollection (None when the payload has none)
\* and res the key the store answered with (None when the call failed)
\* item is the item an "addto" or "tag" call is about (0 otherwise), arg its collection
Call(op, name, arg, res) == [op |-> op, name |-> name, arg |-> arg, res |-> res, item |-> 0]
ItemCall(op, key, id) == [op |-> op, name |-> <<>>, arg |-> key, res |-> None, item |-> id]

\* zot.create_collections([payload]): the store adds a folder and answers with its key
RemoteCreate(r, nk, name, parentKey) ==
    r \cup {[key |-> <<KeyNames[nk + 1]>>, name |-> name,
             parent |-> IF Truthy(parentKey) THEN parentKey ELSE FalseVal]}

----------------------------------------------------------------------------
(* Cache file *)

NoFile == [exists |-> FALSE, ok |-> FALSE, data |-> EmptyDict]
CorruptFile == [exists |-> TRUE, ok |-> FALSE, data |-> EmptyDict]
FileOf(c) == [exists |-> TRUE, ok |-> TRUE, data |-> c]

\* save_cache: the write may fail, which is caught and leaves the file as it was
save_cache(c, f, writeOk) == IF writeOk THEN FileOf(c) ELSE f

Put(c, name, v) == [n \in (DOMAIN c) \cup {name} |-> IF n = name THEN v ELSE c[n]]

\* update_cache: read the file (if any), add one entry, write it back; any error is swallowed
update_cache(f, name, key, writeOk) ==
    IF f.exists /\ ~f.ok THEN f
    ELSE IF ~writeOk THEN f
    ELSE FileOf(Put(IF f.exists THEN f.data ELSE EmptyDict, name, key))

\* zot.collections(): the listing, in some order; of two folders with one name the
\* later one of the listing overwrites the earlier in the dict being built
ListingChoices(r) ==
    LET names == {c.name : c \in r}
    IN {f \in [names -> r] : \A n \in names : f[n].name = n}

----------------------------------------------------------------------------
(* organize.py *)

\* refresh_cache_from_zotero, listing succeeded: {name: {'key', 'parent'}}
RefreshedCache(pick) ==
    [n \in DOMAIN pick |->
        [key |-> pick[n].key,
         parent |-> IF Truthy(pick[n].parent) THEN pick[n].parent ELSE None]]

\* the dry-run branch: found_key = f"fake_{part}_{parent_key or 'root'}"
EcpFake(part, st) ==
    [st EXCEPT !.parent_key =
        <<"fake_">> \o part \o <<"_">> \o
        (IF Truthy(st.parent_key) THEN st.parent_key ELSE <<"root">>)]

PayloadParentDropped(parent_key) == None

\* payload = {'name': part}; if parent_key: payload['parentCollection'] = parent_key
PayloadParent(parent_key) == IF Truthy(parent_key) THEN parent_key ELSE None

\* the live branch: zot.create_collections([payload]), then the cache update and
\* save_cache, or "return None" when the call raises or answers without 'successful'
EcpCreate(part, st, outs, writeOk) ==
    LET outcome == IF st.nextKey >= MaxKeys /\ outs[Len(st.calls) + 1] = "ok"
                   THEN "raise" ELSE outs[Len(st.calls) + 1]
        new_key == <<KeyNames[st.nextKey + 1]>>
        payloadParent == PayloadParent(st.parent_key)
        issued == Append(st.calls, Call("create", part, payloadParent,
                                        IF outcome = "ok" THEN new_key ELSE None))
        c2 == Put(st.cache, part, [key |-> new_key, parent |-> st.parent_key])
    IN  IF outcome = "ok"
        THEN [st EXCEPT !.cache = c2,
                        !.file = save_cache(c2, st.file, writeOk),
                        !.writeFailed = st.writeFailed \/ ~writeOk,
                        !.remote = RemoteCreate(st.remote, st.nextKey, part, payloadParent),
                        !.nextKey = st.nextKey + 1,
                        !.calls = issued,
                        !.parent_key = new_key]
        ELSE [st EXCEPT !.calls = issued, !.returned = TRUE, !.parent_key = None,
                        !.failedAt = Len(issued), !.failedPart = part]

\* the cache lookup of one segment: the cached key, or None when the name is not
\* cached or is cached under another parent than the one walked so far
EcpFound(part, st) ==
    IF part \in DOMAIN st.cache
    THEN IF Truthy(st.parent_key) /\ st.cache[part].parent # st.parent_key
         THEN None
         ELSE st.cache[part].key
    ELSE None

\* the segment step with the dry-run test made at the top level only
EcpSegmentDryAtTop(part, st, dry, outs, writeOk) ==
    IF Truthy(EcpFound(part, st)) THEN [st EXCEPT !.parent_key = EcpFound(part, st)]
    ELSE IF dry /\ ~Truthy(st.parent_key) THEN EcpFake(part, st)
    ELSE EcpCreate(part, st, outs, writeOk)

\* one iteration of "for part in parts" of ensure_collection_path
EcpSegment(part, st, dry, outs, writeOk) ==
    IF Truthy(EcpFound(part, st)) THEN [st EXCEPT !.parent_key = EcpFound(part, st)]
    ELSE IF dry THEN EcpFake(part, st)
    ELSE EcpCreate(part, st, outs, writeOk)

\* the loop of ensure_collection_path over the segments still to walk
RECURSIVE EcpLoop(_, _, _, _, _)
EcpLoop(parts, st, dry, outs, writeOk) ==
    IF parts = <<>> \/ st.returned THEN st
    ELSE EcpLoop(Tail(parts), EcpSegment(Head(parts), st, dry, outs, writeOk),
                 dry, outs, writeOk)

ResolverStart(c, f, r, nk) ==
    [cache |-> c, file |-> f, remote |-> r, nextKey |-> nk, calls |-> <<>>,
     parent_key |-> None, returned |-> FALSE, failedAt |-> 0, failedPart |-> <<>>,
     writeFailed |-> FALSE]

\* the resolver without the test for the "Unclassified" sentinel
EcpWithoutSentinel(path, c, f, r, nk, dry, outs, writeOk) ==
    IF ~Truthy(path)
    THEN ResolverStart(c, f, r, nk)
    ELSE EcpLoop(Parts(path), ResolverStart(c, f, r, nk), dry, outs, writeOk)

\* ensure_collection_path(zot, path, cache)
ensure_collection_path(path, c, f, r, nk, dry, outs, writeOk) ==
    IF ~Truthy(path) \/ path = <<"Unclassified">>
    THEN ResolverStart(c, f, r, nk)
    ELSE EcpLoop(Parts(path), ResolverStart(c, f, r, nk), dry, outs, writeOk)

----------------------------------------------------------------------------
(* organizer.py *)

\* load_collection_cache, listing succeeded: {name: key}
ListedCache(pick) == [n \in DOMAIN pick |-> pick[n].key]

\* a dry-run branch that records the placeholder in the cache
EpkFakeCached(part, st) ==
    [st EXCEPT !.parent_key = <<"fake_">> \o part,
               !.cache = Put(st.cache, part, <<"fake_">> \o part)]

\* the dry-run branch: current_key = "fake_" + part
EpkFake(part, st) == [st EXCEPT !.parent_key = <<"fake_">> \o part]

\* the live branch: zot.create_collections([payload]); on success update_cache and the
\* in-memory entry; an answer without 'successful' leaves current_key None and the
\* loop goes on; an exception returns None
EpkCreate(part, st, outs, writeOk) ==
    LET outcome == IF st.nextKey >= MaxKeys /\ outs[Len(st.calls) + 1] = "ok"
                   THEN "raise" ELSE outs[Len(st.calls) + 1]
        new_key == <<KeyNames[st.nextKey + 1]>>
        payloadParent == IF Truthy(st.parent_key) THEN st.parent_key ELSE None
        issued == Append(st.calls, Call("create", part, payloadParent,
                                        IF outcome = "ok" THEN new_key ELSE None))
        firstFail == IF st.failedAt = 0 THEN Len(issued) ELSE st.failedAt
        firstPart == IF st.failedAt = 0 THEN part ELSE st.failedPart
    IN  IF outcome = "ok"
        THEN [st EXCEPT !.cache = Put(st.cache, part, new_key),
                        !.file = update_cache(st.file, part, new_key, writeOk),
                        !.writeFailed = st.writeFailed \/ ~writeOk,
                        !.remote = RemoteCreate(st.remote, st.nextKey, part, payloadParent),
                        !.nextKey = st.nextKey + 1,
                        !.calls = issued,
                        !.parent_key = new_key]
        ELSE IF outcome = "nosucc"
        THEN [st EXCEPT !.calls = issued, !.parent_key = None,
                        !.failedAt = firstFail, !.failedPart = firstPart]
        ELSE [st EXCEPT !.calls = issued, !.returned = TRUE, !.parent_key = None,
                        !.failedAt = firstFail, !.failedPart = firstPart]

\* the segment step without the DRY_RUN test
EpkSegmentAlwaysLive(part, st, dry, outs, writeOk) ==
    LET current_key == IF part \in DOMAIN st.cache THEN st.cache[part] ELSE None
    IN  IF Truthy(current_key) THEN [st EXCEPT !.parent_key = current_key]
        ELSE EpkCreate(part, st, outs, writeOk)

\* one iteration of "for part in parts" of ensure_path_and_get_key
EpkSegment(part, st, dry, outs, writeOk) ==
    LET current_key == IF part \in DOMAIN st.cache THEN st.cache[part] ELSE None
    IN  IF Truthy(current_key) THEN [st EXCEPT !.parent_key = current_key]
        ELSE IF ~dry THEN EpkCreate(part, st, outs, writeOk)
        ELSE EpkFake(part, st)

\* the loop of ensure_path_and_get_key over the segments still to walk
RECURSIVE EpkLoop(_, _, _, _, _)
EpkLoop(parts, st, dry, outs, writeOk) ==
    IF parts = <<>> \/ st.returned THEN st
    ELSE EpkLoop(Tail(parts), EpkSegment(Head(parts), st, dry, outs, writeOk),
                 dry, outs, writeOk)

\* ensure_path_and_get_key(zot, path, cache)
ensure_path_and_get_key(path, c, f, r, nk, dry, outs, writeOk) ==
    IF ~Truthy(path) \/ ContainsUnclassified(path)
    THEN ResolverStart(c, f, r, nk)
    ELSE EpkLoop(Parts(path), ResolverStart(c, f, r, nk), dry, outs, writeOk)

----------------------------------------------------------------------------
(* Start states *)

Folder(k, n, p) == [key |-> <<k>>, name |-> <<n>>, parent |-> p]

\* remote trees a run can start against: empty, and a tree where the leaf name C
\* lives under B while A is a second top-level folder
InitRemotes ==
    { {},
      {Folder("K1", "A", FalseVal), Folder("K2", "B", FalseVal), Folder("K3", "C", <<"K2">>)} }

Restrict(c, names) == [n \in names |-> c[n]]

\* what an earlier run of the same script can have left in CACHE_FILE: nothing, an
\* unreadable file, what a listing yields, or that with one folder missing (stale)
InitFiles(s, r) ==
    {NoFile, CorruptFile} \cup
    { FileOf(Restrict(IF s = "organize" THEN RefreshedCache(pick) ELSE ListedCache(pick), names)) :
        pick \in ListingChoices(r),
        names \in {ns \in SUBSET {c.name : c \in r} : Cardinality(ns) + 1 >= Cardinality(r)} }

\* the items tagged gemini_read: the second already carries the processed tag, the third
\* has no note with keywords, the first already sits in the remote's first folder
ItemAt(i, r) ==
    [tags |-> IF i = 2 THEN <<"gemini_read", AUTO_TAG_NAME>> ELSE <<"gemini_read">>,
     colls |-> IF i = 1 /\ r # {} THEN {<<"K1">>} ELSE {},
     note |-> i # 3]

InitItems(r) == {[i \in 1..n |-> ItemAt(i, r)] : n \in 0..MaxItems}

NoCall ==
    [made |-> FALSE, path |-> None, ret |-> None, calls |-> <<>>, failedAt |-> 0,
     failedPart |-> <<>>, writeFailed |-> FALSE, cacheBefore |-> EmptyDict, fileBefore |-> NoFile,
     remoteBefore |-> {}]

\* the cache files of a whole run: none, an unreadable one, or a complete one
RunFiles(s, r) ==
    {NoFile, CorruptFile} \cup
    { FileOf(IF s = "organize" THEN RefreshedCache(pick) ELSE ListedCache(pick)) :
        pick \in ListingChoices(r) }

\* keyword_classifier.py has not run: no document, no clustering, no call
NoKeywords ==
    /\ keywords_list = <<>>
    /\ keyword_list = <<>>
    /\ similarity = <<>>
    /\ keyword_pairs = <<>>
    /\ keyword_to_cluster = EmptyDict
    /\ clusters = EmptyDict
    /\ merges = 0
    /\ categories = EmptyDict
    /\ threshold = None
    /\ runs = <<>>
    /\ probe = None

\* the state when main() starts; wide: every cache file, no item (the resolver alone)
Start(wide) ==
    /\ NoKeywords
    /\ script \in {"organize", "organizer"}
    /\ DRY_RUN \in BOOLEAN
    /\ pc = "start"
    /\ cache = EmptyDict
    /\ remote \in InitRemotes
    /\ nextKey = Cardinality(remote)
    /\ file \in IF wide THEN InitFiles(script, remote) ELSE RunFiles(script, remote)
    /\ calls = <<>>
    /\ last = NoCall
    /\ prev = NoCall
    /\ nCalls = 0
    /\ items \in IF wide THEN {<<>>} ELSE InitItems(remote)
    /\ fetched = <<>>
    /\ todo = <<>>
    /\ batch_idx = 0
    /\ batches = <<>>
    /\ classifications = <<>>
    /\ response = "none"
    /\ pos = 0
    /\ applied = <<>>
    /\ organized_count = 0
    /\ faults = 0
    /\ raisedIn = {}

Init == Start(FALSE)

InitResolve == Start(TRUE)

----------------------------------------------------------------------------
(* Loading the cache at the start of main() *)

\* organize.py main(): cache = load_cache(); if not cache: refresh_cache_from_zotero(zot)
LoadOrRefreshCache ==
    /\ script = "organize"
    /\ pc = "start"
    /\ LET loaded == IF file.exists /\ file.ok THEN file.data ELSE EmptyDict
       IN IF DOMAIN loaded # {}
          THEN /\ cache' = loaded
               /\ UNCHANGED file
               /\ calls' = <<>>
          ELSE \E listOk \in BOOLEAN, writeOk \in BOOLEAN, pick \in ListingChoices(remote) :
               /\ cache' = IF listOk THEN RefreshedCache(pick) ELSE EmptyDict
               /\ file' = IF listOk THEN save_cache(RefreshedCache(pick), file, writeOk) ELSE file
               /\ calls' = <<Call("list", <<>>, None, IF listOk THEN <<"listed">> ELSE None)>>
    /\ pc' = "loaded"
    /\ UNCHANGED <<kwVars, script, DRY_RUN, remote, nextKey, last, prev, nCalls, runVars>>

\* organizer.py load_collection_cache(zot)
load_collection_cache ==
    /\ script = "organizer"
    /\ pc = "start"
    /\ IF file.exists /\ file.ok
       THEN /\ cache' = file.data
            /\ UNCHANGED file
            /\ calls' = <<>>
       ELSE \E listOk \in BOOLEAN, writeOk \in BOOLEAN, pick \in ListingChoices(remote) :
            /\ cache' = IF listOk /\ writeOk THEN ListedCache(pick) ELSE EmptyDict
            /\ file' = IF listOk /\ writeOk THEN FileOf(ListedCache(pick)) ELSE file
            /\ calls' = <<Call("list", <<>>, None, IF listOk THEN <<"listed">> ELSE None)>>
    /\ pc' = "loaded"
    /\ UNCHANGED <<kwVars, script, DRY_RUN, remote, nextKey, last, prev, nCalls, runVars>>

----------------------------------------------------------------------------
(* The path resolver, called with paths of every shape *)

TestPaths ==
    { <<>>,
      None,
      <<"Unclassified">>,
      <<" ", "/", " ">>,
      <<"A">>,
      <<"A", "/", "A">>,
      <<"A", "/", "B">>,
      <<" ", "A", " ", "/", "B">>,
      <<"A", "/", "C">>,
      <<"B", "/", "C">>,
      <<"A", "/", "B", "/", "C">> }

\* the outcomes of the create calls a resolution of path can issue, one per segment;
\* what follows a raising call is never read, so it is fixed to "ok"
OutcomesFor(path) ==
    IF Truthy(path)
    THEN {o \in [1..Len(Parts(path)) -> CreateOutcomes] :
            \A i, j \in DOMAIN o : (i < j /\ o[i] = "raise") => o[j] = "ok"}
    ELSE {<<>>}

CallRecord(path, st, c, f, r) ==
    [made |-> TRUE, path |-> path,
     ret |-> IF st.returned THEN None ELSE st.parent_key,
     calls |-> st.calls, failedAt |-> st.failedAt, failedPart |-> st.failedPart,
     writeFailed |-> st.writeFailed,
     cacheBefore |-> c, fileBefore |-> f, remoteBefore |-> r]

Resolved(path, st) ==
    /\ cache' = st.cache
    /\ file' = st.file
    /\ remote' = st.remote
    /\ nextKey' = st.nextKey
    /\ calls' = st.calls
    /\ prev' = last
    /\ last' = CallRecord(path, st, cache, file, remote)
    /\ nCalls' = nCalls + 1
    /\ UNCHANGED <<kwVars, script, DRY_RUN, pc, runVars>>

\* a call ensure_collection_path(zot, path, cache) of organize.py
CallEnsureCollectionPath ==
    /\ script = "organize"
    /\ pc = "loaded"
    /\ nCalls < MaxCalls
    /\ \E path \in TestPaths, writeOk \in BOOLEAN :
       \E outs \in OutcomesFor(path) :
          Resolved(path, ensure_collection_path(path, cache, file, remote, nextKey,
                                                DRY_RUN, outs, writeOk))

\* a call ensure_path_and_get_key(zot, path, cache) of organizer.py
CallEnsurePathAndGetKey ==
    /\ script = "organizer"
    /\ pc = "loaded"
    /\ nCalls < MaxCalls
    /\ \E path \in TestPaths, writeOk \in BOOLEAN :
       \E outs \in OutcomesFor(path) :
          Resolved(path, ensure_path_and_get_key(path, cache, file, remote, nextKey,
                                                 DRY_RUN, outs, writeOk))

NextResolve ==
    \/ LoadOrRefreshCache
    \/ load_collection_cache
    \/ CallEnsureCollectionPath
    \/ CallEnsurePathAndGetKey

SpecResolve == InitResolve /\ [][NextResolve]_vars

----------------------------------------------------------------------------
(* main(): fetching the items and slicing the batches *)

Range(q) == {q[i] : i \in DOMAIN q}

\* the filter loop without the test for the processed tag
RECURSIVE TodoFromUntested(_, _)
TodoFromUntested(its, i) ==
    IF i > Len(its) THEN <<>>
    ELSE IF ~its[i].note THEN TodoFromUntested(its, i + 1)
    ELSE <<[id |-> i, tags |-> its[i].tags, colls |-> its[i].colls]>>
             \o TodoFromUntested(its, i + 1)

\* [t.get('tag', '') for t in item['data'].get('tags', [])] and the two filters of the loop
RECURSIVE TodoFrom(_, _)
TodoFrom(its, i) ==
    IF i > Len(its) THEN <<>>
    ELSE IF AUTO_TAG_NAME \in Range(its[i].tags) THEN TodoFrom(its, i + 1)
    ELSE IF ~its[i].note THEN TodoFrom(its, i + 1)
    ELSE <<[id |-> i, tags |-> its[i].tags, colls |-> its[i].colls]>> \o TodoFrom(its, i + 1)

\* math.ceil(len(todo_items) / BATCH_SIZE)
Ceil(n, d) == IF n % d = 0 THEN n \div d ELSE (n \div d) + 1

\* the batch count rounded down
total_batches_floor == Len(todo) \div BATCH_SIZE

total_batches == Ceil(Len(todo), BATCH_SIZE)

\* for batch_idx in range(total_batches): the next body, or the code after the loop
LoopNext(b, total) == IF b < total THEN "batch" ELSE "summary"

Min(a, b) == IF a < b THEN a ELSE b

\* todo_items[batch_idx * BATCH_SIZE : (batch_idx + 1) * BATCH_SIZE]
BatchSlice(q, b) == SubSeq(q, Min(b * BATCH_SIZE, Len(q)) + 1, Min((b + 1) * BATCH_SIZE, Len(q)))

batch == BatchSlice(todo, batch_idx)

\* main(): items = zot.items(tag='gemini_read'), the filter loop and the early return
FetchItems ==
    /\ pc = "loaded"
    /\ \E fetchOk \in BOOLEAN :
          IF fetchOk
          THEN /\ fetched' = items
               /\ todo' = TodoFrom(items, 1)
               /\ pc' = IF TodoFrom(items, 1) = <<>> THEN "done"
                        ELSE LoopNext(0, total_batches')
          ELSE /\ pc' = "aborted"
               /\ UNCHANGED <<fetched, todo>>
    /\ calls' = <<Call("items", <<>>, None, None)>>
    /\ UNCHANGED <<kwVars, script, DRY_RUN, cache, file, remote, nextKey, last, prev, nCalls,
                   items, batch_idx, batches, classifications, response, pos, applied,
                   organized_count, faults, raisedIn>>

PathA == <<"A">>
PathAB == <<"A", "/", "B">>
PathB == <<" ", "B">>
Unclassified == <<"Unclassified">>

\* one (key, value) pair of the answer; bad: the value is no string and no dict (a
\* number, a list), so that reading it as a path or with .get raises
Entry(k, v) == [k |-> k, v |-> v, bad |-> FALSE]
BadEntry(k) == [k |-> k, v |-> None, bad |-> TRUE]
Dual(a, i) == [archive_path |-> a, idea_path |-> i]

\* answers of the classifier to one batch, as the (key, value) pairs of the parsed JSON
\* object in order
Answers(s) ==
    IF s = "organize"
    THEN { <<>>,
           <<Entry(<<"0">>, PathAB), Entry(<<"2">>, PathA), Entry(<<"4">>, PathAB)>>,
           <<Entry(<<"-", "1">>, PathA)>>,
           <<Entry(<<"x">>, PathA), Entry(<<" ", "1">>, PathB)>>,
           <<Entry(<<"5">>, PathA), Entry(<<"-", "6">>, PathA),
             Entry(<<"0">>, Unclassified), Entry(<<"1">>, PathA)>>,
           <<BadEntry(<<"0">>), Entry(<<"1">>, PathA)>>,
           <<Entry(<<" ", "0">>, PathA), Entry(<<"0">>, PathA)>> }
    ELSE { <<>>,
           <<Entry(<<"0">>, Dual(PathAB, PathB)), Entry(<<"2">>, Dual(PathA, PathA)),
             Entry(<<"4">>, Dual(PathAB, None))>>,
           <<Entry(<<"-", "1">>, Dual(PathA, Unclassified))>>,
           <<Entry(<<"x">>, Dual(PathA, PathB)), Entry(<<" ", "1">>, Dual(PathB, None))>>,
           <<Entry(<<"5">>, Dual(PathA, PathA)), Entry(<<"-", "6">>, Dual(PathA, PathA)),
             Entry(<<"0">>, Dual(Unclassified, None)), Entry(<<"1">>, Dual(PathA, PathB))>>,
           <<BadEntry(<<"0">>), Entry(<<"1">>, Dual(PathA, PathB))>>,
           <<Entry(<<" ", "0">>, Dual(PathA, None)), Entry(<<"0">>, Dual(PathA, None))>> }

\* what client.models.generate_content and json.loads can come back with: the call
\* raises, the text is no JSON, or the text is JSON for an object, a list, a string,
\* a number or null
Responses == {"raise", "unparsable", "object", "list", "string", "number", "null"}

\* len(result) of organize.py's print raises TypeError for a number and for None
HasLen(kind) == kind \in {"object", "list", "string"}

\* ai_classify_batch / ai_dual_classify: the value handed back to main(); "dict" is a
\* dict (the parsed object, or the {} of the except clause), anything else is the
\* parsed value itself
Returned(s, kind) ==
    IF kind \in {"raise", "unparsable"} THEN "dict"
    ELSE IF kind = "object" THEN "dict"
    ELSE IF s = "organize" /\ ~HasLen(kind) THEN "dict"
    ELSE kind

\* classifications.items() / decisions.items(), evaluated outside the per-index try:
\* only a dict has it
ItemsOf(ret, position) == IF ret = "dict" THEN position ELSE "aborted"

\* the head of the batch loop: slice the batch and ask the classifier
ClassifyBatch ==
    /\ pc = "batch"
    /\ batches' = Append(batches, batch)
    /\ \E kind \in Responses :
          /\ response' = kind
          /\ classifications' \in IF kind = "object" THEN Answers(script) ELSE {<<>>}
          /\ pc' = ItemsOf(Returned(script, kind), "apply")
    /\ pos' = 0
    /\ applied' = <<>>
    /\ calls' = <<>>
    /\ UNCHANGED <<kwVars, script, DRY_RUN, cache, file, remote, nextKey, last, prev, nCalls,
                   items, fetched, todo, batch_idx, organized_count, faults, raisedIn>>

\* the end of the batch loop's body: every entry was iterated; sleep, next batch
EndBatch ==
    /\ pc = "apply"
    /\ pos = Len(classifications)
    /\ batch_idx' = batch_idx + 1
    /\ pc' = LoopNext(batch_idx + 1, total_batches)
    /\ calls' = <<>>
    /\ UNCHANGED <<kwVars, script, DRY_RUN, cache, file, remote, nextKey, last, prev, nCalls,
                   items, fetched, todo, batches, classifications, response, pos, applied,
                   organized_count, faults, raisedIn>>

\* the summary printed after the batch loop
Summary ==
    /\ pc = "summary"
    /\ pc' = "done"
    /\ calls' = <<>>
    /\ UNCHANGED <<kwVars, script, DRY_RUN, cache, file, remote, nextKey, last, prev, nCalls, runVars>>

----------------------------------------------------------------------------
(* main(): applying one entry of the classifier's answer *)

Digits == <<"0", "1", "2", "3", "4", "5", "6", "7", "8", "9">>
DigitVal(d) == (CHOOSE i \in 1..10 : Digits[i] = d) - 1

RECURSIVE Decimal(_)
Decimal(ds) == IF ds = <<>> THEN 0 ELSE 10 * Decimal(SubSeq(ds, 1, Len(ds) - 1)) + DigitVal(ds[Len(ds)])

\* int(idx_str): surrounding blanks and one sign are accepted, anything else but
\* decimal digits raises ValueError (ok = FALSE)
ParseInt(str) ==
    LET t == Strip(str)
        signed == t # <<>> /\ t[1] \in {"-", "+"}
        ds == IF signed THEN Tail(t) ELSE t
    IN IF ds = <<>> \/ \E i \in 1..Len(ds) : ds[i] \notin Range(Digits)
       THEN [ok |-> FALSE, val |-> 0]
       ELSE [ok |-> TRUE, val |-> IF signed /\ t[1] = "-" THEN 0 - Decimal(ds) ELSE Decimal(ds)]

\* batch[idx] of a Python list: the 1-based position read, or 0 for an IndexError
ListIndex(len, idx) ==
    IF idx >= 0 THEN (IF idx < len THEN idx + 1 ELSE 0)
    ELSE (IF len + idx >= 0 THEN len + idx + 1 ELSE 0)

\* how the loop reaches the paper of one entry: the steps before the path is read
Lookup(e) ==
    LET idx == ParseInt(e.k)
        li == ListIndex(Len(batch), idx.val)
    IN IF ~idx.ok THEN [raised |-> TRUE, skipped |-> FALSE, gi |-> 0]
       ELSE IF idx.val >= Len(batch) THEN [raised |-> FALSE, skipped |-> TRUE, gi |-> 0]
       ELSE IF li = 0 THEN [raised |-> TRUE, skipped |-> FALSE, gi |-> 0]
       ELSE [raised |-> FALSE, skipped |-> FALSE, gi |-> batch_idx * BATCH_SIZE + li]

NoMove == [calls |-> <<>>, appended |-> FALSE, added |-> {}, tagged |-> FALSE, raised |-> FALSE]

\* move_item_to_collection(zot, item, target_key) of organize.py
move_item_to_collection(item, target_key, dry, addOk, tagOk) ==
    IF ~Truthy(target_key) \/ IsPlaceholder(target_key) THEN NoMove
    ELSE IF dry THEN NoMove
    ELSE IF target_key \in item.colls THEN NoMove
    ELSE IF ~addOk
    THEN [NoMove EXCEPT !.calls = <<ItemCall("addto", target_key, item.id)>>]
    ELSE IF AUTO_TAG_NAME \in Range(item.tags)
    THEN [NoMove EXCEPT !.calls = <<ItemCall("addto", target_key, item.id)>>,
                        !.added = {target_key}]
    ELSE [NoMove EXCEPT !.calls = <<ItemCall("addto", target_key, item.id),
                                    ItemCall("tag", None, item.id)>>,
                        !.added = {target_key}, !.appended = TRUE, !.tagged = tagOk]

\* the exception leaves the loop and main()
AfterExceptionEscapes(position) == "aborted"

\* the except clause of the per-index try: the exception is printed, the loop goes on
AfterException(position) == position

\* the number of failing outcomes among the chosen ones
NonOk(outs) == Cardinality({i \in DOMAIN outs : outs[i] # "ok"})

\* the outcomes for the creates of path that inject at most n faults
OutcomesWithin(path, n) == {o \in OutcomesFor(path) : NonOk(o) <= n}

Flag(b) == IF b THEN 0 ELSE 1

\* one entry left as it was: nothing resolved, nothing moved
Untouched(e, lk) ==
    [k |-> e.k, raised |-> lk.raised, skipped |-> lk.skipped, id |-> 0,
     rets |-> <<>>, calls |-> <<>>]

\* the state after one iteration of the loop over the answer
Iterated(e, rec, raisedNow) ==
    /\ applied' = Append(applied, rec)
    /\ pos' = pos + 1
    /\ pc' = IF raisedNow THEN AfterException(pc) ELSE pc
    /\ raisedIn' = IF raisedNow THEN raisedIn \cup {batch_idx} ELSE raisedIn
    /\ UNCHANGED <<kwVars, script, DRY_RUN, fetched, batch_idx, batches, classifications, response>>

\* organize.py main(): one iteration of "for idx_str, path in classifications.items()"
ProcessClassification ==
    /\ script = "organize"
    /\ pc = "apply"
    /\ pos < Len(classifications)
    /\ LET e == classifications[pos + 1]
           lk == Lookup(e)
       IN IF lk.gi = 0 \/ e.bad
          THEN /\ Iterated(e, [Untouched(e, lk) EXCEPT !.raised = lk.raised \/ ~lk.skipped],
                           lk.raised \/ ~lk.skipped)
               /\ calls' = <<>>
               /\ UNCHANGED <<cache, file, remote, nextKey, last, prev, nCalls,
                              items, todo, organized_count, faults>>
          ELSE \E writeOk \in BOOLEAN, addOk \in BOOLEAN, tagOk \in BOOLEAN :
               \E outs \in OutcomesWithin(e.v, MaxFaults - faults) :
               /\ faults + NonOk(outs) + Flag(writeOk) + Flag(addOk) + Flag(tagOk) <= MaxFaults
               /\ LET st == ensure_collection_path(e.v, cache, file, remote, nextKey,
                                                   DRY_RUN, outs, writeOk)
                      target_key == IF st.returned THEN None ELSE st.parent_key
                      item_info == todo[lk.gi]
                      mv == IF Truthy(target_key) /\ ~DRY_RUN
                            THEN move_item_to_collection(item_info, target_key, DRY_RUN, addOk, tagOk)
                            ELSE NoMove
                      used == NonOk(outs) + Flag(writeOk) + Flag(addOk) + Flag(tagOk)
                  IN /\ faults' = faults + used
                     /\ cache' = st.cache
                     /\ file' = st.file
                     /\ remote' = st.remote
                     /\ nextKey' = st.nextKey
                     /\ calls' = st.calls \o mv.calls
                     /\ prev' = last
                     /\ last' = CallRecord(e.v, st, cache, file, remote)
                     /\ nCalls' = nCalls + 1
                     /\ todo' = IF mv.appended
                                THEN [todo EXCEPT ![lk.gi].tags = Append(@, AUTO_TAG_NAME)]
                                ELSE todo
                     /\ items' = [items EXCEPT
                                    ![item_info.id].colls = @ \cup mv.added,
                                    ![item_info.id].tags =
                                        IF mv.tagged THEN Append(item_info.tags, AUTO_TAG_NAME) ELSE @]
                     /\ organized_count' = organized_count + (IF Truthy(target_key) THEN 1 ELSE 0)
                     /\ Iterated(e, [k |-> e.k, raised |-> FALSE, skipped |-> FALSE,
                                     id |-> item_info.id, rets |-> <<target_key>>,
                                     calls |-> st.calls \o mv.calls], FALSE)

\* keys_to_add: k1 and k2, each kept "if k and not k.startswith('fake')"
KeysToAdd(k1, k2) ==
    (IF Truthy(k1) /\ ~IsPlaceholder(k1) THEN <<k1>> ELSE <<>>) \o
    (IF Truthy(k2) /\ ~IsPlaceholder(k2) THEN <<k2>> ELSE <<>>)

RECURSIVE NotIn(_, _)
NotIn(ks, colls) ==
    IF ks = <<>> THEN <<>>
    ELSE (IF Head(ks) \in colls THEN <<>> ELSE <<Head(ks)>>) \o NotIn(Tail(ks), colls)

\* the "if not DRY_RUN" block of organizer.py main(): zot.add_to_collection for every key
\* the paper is not in yet, then zot.add_tags; failAt is the call that raises (0: none)
AddAndTag(paper, keys, dry, failAt) ==
    IF dry THEN NoMove
    ELSE
    LET adds == NotIn(keys, paper.colls)
        all == [i \in 1..Len(adds) |-> ItemCall("addto", adds[i], paper.id)]
                   \o <<ItemCall("tag", None, paper.id)>>
        n == IF failAt = 0 THEN Len(all) ELSE Min(failAt, Len(all))
        okAdds == IF failAt = 0 THEN Len(adds) ELSE Min(failAt - 1, Len(adds))
    IN [calls |-> SubSeq(all, 1, n),
        appended |-> FALSE,
        added |-> {adds[i] : i \in 1..okAdds},
        tagged |-> failAt = 0 \/ failAt > Len(all),
        raised |-> failAt # 0 /\ failAt <= Len(all)]

\* organizer.py main(): one iteration of "for idx_str, paths in decisions.items()"
ProcessDecision ==
    /\ script = "organizer"
    /\ pc = "apply"
    /\ pos < Len(classifications)
    /\ LET e == classifications[pos + 1]
           lk == Lookup(e)
       IN IF lk.gi = 0 \/ e.bad
          THEN /\ Iterated(e, [Untouched(e, lk) EXCEPT !.raised = lk.raised \/ ~lk.skipped],
                           lk.raised \/ ~lk.skipped)
               /\ calls' = <<>>
               /\ UNCHANGED <<cache, file, remote, nextKey, last, prev, nCalls,
                              items, todo, organized_count, faults>>
          ELSE \E writeOk \in BOOLEAN, failAt \in 0..3 :
               \E outs1 \in OutcomesWithin(e.v.archive_path, MaxFaults - faults),
                  outs2 \in OutcomesWithin(e.v.idea_path, MaxFaults - faults) :
               /\ faults + NonOk(outs1) + NonOk(outs2) + Flag(writeOk) + Flag(failAt = 0)
                     <= MaxFaults
               /\ LET s1 == ensure_path_and_get_key(e.v.archive_path, cache, file, remote, nextKey,
                                                    DRY_RUN, outs1, writeOk)
                      k1 == IF s1.returned THEN None ELSE s1.parent_key
                      s2 == ensure_path_and_get_key(e.v.idea_path, s1.cache, s1.file, s1.remote,
                                                    s1.nextKey, DRY_RUN, outs2, writeOk)
                      k2 == IF s2.returned THEN None ELSE s2.parent_key
                      paper == todo[lk.gi]
                      mv == AddAndTag(paper, KeysToAdd(k1, k2), DRY_RUN, failAt)
                      used == NonOk(outs1) + NonOk(outs2) + Flag(writeOk) + Flag(failAt = 0)
                  IN /\ failAt # 0 => mv.raised
                     /\ faults' = faults + used
                     /\ cache' = s2.cache
                     /\ file' = s2.file
                     /\ remote' = s2.remote
                     /\ nextKey' = s2.nextKey
                     /\ calls' = s1.calls \o s2.calls \o mv.calls
                     /\ prev' = CallRecord(e.v.archive_path, s1, cache, file, remote)
                     /\ last' = CallRecord(e.v.idea_path, s2, s1.cache, s1.file, s1.remote)
                     /\ nCalls' = nCalls + 2
                     /\ UNCHANGED <<todo, organized_count>>
                     /\ items' = [items EXCEPT
                                    ![paper.id].colls = @ \cup mv.added,
                                    ![paper.id].tags =
                                        IF mv.tagged /\ ~DRY_RUN THEN Append(@, AUTO_TAG_NAME) ELSE @]
                     /\ Iterated(e, [k |-> e.k, raised |-> mv.raised, skipped |-> FALSE,
                                     id |-> paper.id, rets |-> <<k1, k2>>,
                                     calls |-> s1.calls \o s2.calls \o mv.calls], mv.raised)

Next ==
    \/ LoadOrRefreshCache
    \/ load_collection_cache
    \/ FetchItems
    \/ ClassifyBatch
    \/ ProcessClassification
    \/ ProcessDecision
    \/ EndBatch
    \/ Summary

Spec == Init /\ [][Next]_vars

----------------------------------------------------------------------------
(* keyword_classifier.py: Python floats *)
(*                                                                         *)
(* A float is [m, e], standing for m * 2^e, with a significand m of        *)
(* SignificandBits bits (2^(SignificandBits-1) <= |m| < 2^SignificandBits, *)
(* or m = 0 and e = 0) and every operation rounded to the nearest float,   *)
(* ties to the even significand, as IEEE arithmetic does at 53 bits.       *)

\* the width of the significand kept
SignificandBits == 8

Zero == [m |-> 0, e |-> 0]

Abs(x) == IF x < 0 THEN 0 - x ELSE x

\* (a / b) * 2^e for integers a >= 0, b > 0, rounded to the nearest float
RECURSIVE RoundRat(_, _, _)
RoundRat(a, b, e) ==
    IF a = 0 THEN Zero
    ELSE IF a \div b >= 2^SignificandBits THEN RoundRat(a, 2 * b, e + 1)
    ELSE IF a \div b < 2^(SignificandBits - 1) THEN RoundRat(2 * a, b, e - 1)
    ELSE LET q == a \div b
             r == a % b
             up == 2 * r > b \/ (2 * r = b /\ q % 2 = 1)
         IN IF ~up THEN [m |-> q, e |-> e]
            ELSE IF q + 1 = 2^SignificandBits
                 THEN [m |-> 2^(SignificandBits - 1), e |-> e + 1]
                 ELSE [m |-> q + 1, e |-> e]

Neg(x) == [m |-> 0 - x.m, e |-> x.e]

\* the same for an integer a of either sign
Fl(a, b, e) == IF a < 0 THEN Neg(RoundRat(0 - a, b, e)) ELSE RoundRat(a, b, e)

\* float(n) of an int, and a decimal literal n/d of the source
Float(n) == Fl(n, 1, 0)
One == Float(1)

FMul(x, y) == Fl(x.m * y.m, 1, x.e + y.e)

FDiv(x, y) == Fl(IF y.m < 0 THEN 0 - x.m ELSE x.m, Abs(y.m), x.e - y.e)

\* x + y: the operands are aligned on the smaller exponent; an operand more than
\* SignificandBits + 2 binary places below the other cannot change the rounded sum
FAdd(x, y) ==
    IF x.m = 0 THEN y
    ELSE IF y.m = 0 THEN x
    ELSE IF x.e - y.e > SignificandBits + 2 THEN x
    ELSE IF y.e - x.e > SignificandBits + 2 THEN y
    ELSE LET e == IF x.e < y.e THEN x.e ELSE y.e
         IN Fl(x.m * 2^(x.e - e) + y.m * 2^(y.e - e), 1, e)

FSub(x, y) == FAdd(x, Neg(y))

\* x >= y: the difference of two floats rounds to a float of its own sign
FGeq(x, y) == FSub(x, y).m >= 0

\* the integer square root, by bisection: lo^2 <= v < hi^2
RECURSIVE ISqrt(_, _, _)
ISqrt(v, lo, hi) ==
    IF hi - lo <= 1 THEN lo
    ELSE LET mid == (lo + hi) \div 2
         IN IF mid * mid <= v THEN ISqrt(v, mid, hi) ELSE ISqrt(v, lo, mid)

\* math.sqrt(x), x >= 0: the square root of m * 2^e with e made even and m scaled
\* by 4^SignificandBits, rounded to the nearest float
FSqrt(x) ==
    IF x.m = 0 THEN Zero
    ELSE LET odd == x.e % 2 = 1
             v == x.m * 2^(2 * SignificandBits + (IF odd THEN 1 ELSE 0))
             ev == x.e - 2 * SignificandBits - (IF odd THEN 1 ELSE 0)
             q == ISqrt(v, 0, 2^(SignificandBits + SignificandBits \div 2 + 1))
             s == CHOOSE k \in 0..(SignificandBits + 2) :
                      /\ q \div 2^k < 2^SignificandBits
                      /\ q \div 2^k >= 2^(SignificandBits - 1)
             lo == (q \div 2^s) * 2^s
             \* the midpoint between lo and the next float, doubled to stay integral
             mid2 == 2 * lo + 2^s
             up == 4 * v > mid2 * mid2
                   \/ (4 * v = mid2 * mid2 /\ (q \div 2^s) % 2 = 1)
         IN Fl(IF up THEN lo + 2^s ELSE lo, 1, ev \div 2)

\* ln(k) * 2^20 for k = 1..12, rounded to the nearest integer
LnScaled == <<0, 726817, 1151978, 1453635, 1687618, 1878796, 2040435, 2180452, 2303957, 2414435, 2514375, 2605613>>

\* math.log(n / d) for ints n and d: the logarithm of the quotient, rounded to the
\* nearest float (the rounding of the quotient itself is left out)
Ln(n, d) == Fl(LnScaled[n] - LnScaled[d], 1, 0 - 20)

\* sum(xs) of Python: the elements are added one by one, from the left, starting
\* at 0; FSumOver adds xs[lo..hi] to acc in that order, the range taken by halves
\* and the first half summed before the second is entered
RECURSIVE FSumOver(_, _, _, _)
FSumOver(xs, lo, hi, acc) ==
    IF lo > hi THEN acc
    ELSE IF lo = hi THEN FAdd(acc, xs[lo])
    ELSE LET mid == (lo + hi) \div 2
             left == FSumOver(xs, lo, mid, acc)
         IN IF left.m = 0
            THEN FSumOver(xs, mid + 1, hi, Zero)
            ELSE FSumOver(xs, mid + 1, hi, left)

FSum(xs) == FSumOver(xs, 1, Len(xs), Zero)

----------------------------------------------------------------------------
(* keyword_classifier.py: normalize_keyword *)

\* re.sub(r'<[^>]+>', '', keyword): a "<", one or more characters other than ">",
\* and the first ">" after them are deleted; the scan resumes behind the match
RECURSIVE TagEnd(_, _)
TagEnd(s, j) ==
    IF j > Len(s) THEN 0
    ELSE IF s[j] = ">" THEN j
    ELSE TagEnd(s, j + 1)

RECURSIVE StripTags(_, _)
StripTags(s, i) ==
    IF i > Len(s) THEN <<>>
    ELSE LET j == TagEnd(s, i + 1)
         IN IF s[i] = "<" /\ j > i + 1
            THEN StripTags(s, j + 1)
            ELSE <<s[i]>> \o StripTags(s, i + 1)

\* str.lower()
Lower(s) == [i \in 1..Len(s) |-> IF s[i] = "A" THEN "a" ELSE s[i]]

\* the characters [^\w\s\-] deletes: all but letters, digits, blanks and hyphens
Punctuation == {"<", ">", "."}

RECURSIVE KeepWordChars(_)
KeepWordChars(s) ==
    IF s = <<>> THEN <<>>
    ELSE (IF Head(s) \in Punctuation THEN <<>> ELSE <<Head(s)>>) \o KeepWordChars(Tail(s))

\* re.sub(r'\s+', ' ', keyword): every run of blanks becomes one blank
RECURSIVE CollapseBlanks(_)
CollapseBlanks(s) ==
    IF s = <<>> THEN <<>>
    ELSE IF Head(s) = " " /\ Len(s) > 1 /\ s[2] = " " THEN CollapseBlanks(Tail(s))
    ELSE <<Head(s)>> \o CollapseBlanks(Tail(s))

\* the normalizer without the strip() that follows the collapsing of blanks
normalize_unstripped(keyword) ==
    CollapseBlanks(KeepWordChars(Strip(Lower(StripTags(keyword, 1)))))

\* normalize_keyword(keyword)
normalize_keyword(keyword) ==
    Strip(CollapseBlanks(KeepWordChars(Strip(Lower(StripTags(keyword, 1))))))

----------------------------------------------------------------------------
(* keyword_classifier.py: similarity of two keywords *)

Min3(a, b, c) == Min(a, Min(b, c))

\* one pass of the inner loop: current_row, started as [i + 1], grows by one entry
\* per character of s2
RECURSIVE LevRow(_, _, _, _)
LevRow(c1, s2, previous_row, current_row) ==
    LET j == Len(current_row)
    IN IF j > Len(s2) THEN current_row
       ELSE LET insertions == previous_row[j + 1] + 1
                deletions == current_row[j] + 1
                substitutions == previous_row[j] + (IF c1 # s2[j] THEN 1 ELSE 0)
            IN LevRow(c1, s2, previous_row,
                      Append(current_row, Min3(insertions, deletions, substitutions)))

\* the outer loop over the characters of s1, from previous_row = range(len(s2) + 1)
RECURSIVE LevRows(_, _, _, _)
LevRows(s1, s2, i, previous_row) ==
    IF i > Len(s1) THEN previous_row
    ELSE LevRows(s1, s2, i + 1, LevRow(s1[i], s2, previous_row, <<i>>))

\* levenshtein_distance(s1, s2): the longer string first
levenshtein_distance(s1, s2) ==
    LET a == IF Len(s1) < Len(s2) THEN s2 ELSE s1
        b == IF Len(s1) < Len(s2) THEN s1 ELSE s2
    IN IF Len(b) = 0 THEN Len(a)
       ELSE LevRows(a, b, 1, [k \in 1..(Len(b) + 1) |-> k - 1])[Len(b) + 1]

\* string_similarity(s1, s2)
string_similarity(s1, s2) ==
    IF s1 = <<>> \/ s2 = <<>> THEN Zero
    ELSE IF s1 = s2 THEN One
    ELSE LET max_len == IF Len(s1) > Len(s2) THEN Len(s1) ELSE Len(s2)
             distance == levenshtein_distance(s1, s2)
         IN FSub(One, FDiv(Float(distance), Float(max_len)))

\* the keys of Counter(doc_keywords): the keywords of a document, first occurrence first
RECURSIVE Keys(_)
Keys(doc) ==
    IF doc = <<>> THEN <<>>
    ELSE LET front == Keys(SubSeq(doc, 1, Len(doc) - 1))
         IN IF doc[Len(doc)] \in Range(front) THEN front ELSE Append(front, doc[Len(doc)])

Count(doc, kw) == Cardinality({i \in DOMAIN doc : doc[i] = kw})

\* doc_freq[kw]: the number of documents holding the keyword
doc_freq(docs, kw) == Cardinality({d \in DOMAIN docs : kw \in Range(docs[d])})

\* the TF-IDF vector of one document, as the (keyword, weight) items of the dict
tfidf_vector(docs, d) ==
    LET keys == Keys(docs[d])
        max_count == CHOOSE c \in {Count(docs[d], k) : k \in Range(keys)} :
                         \A k \in Range(keys) : Count(docs[d], k) <= c
    IN [i \in 1..Len(keys) |->
          [kw |-> keys[i],
           w |-> FMul(FDiv(Float(Count(docs[d], keys[i])), Float(max_count)),
                      Ln(Len(docs), doc_freq(docs, keys[i]) + 1))]]

\* tfidf_vectorize(keywords_list): the list of vectors
tfidf_vectorize(docs) == [d \in 1..Len(docs) |-> tfidf_vector(docs, d)]

\* vec.get(k, 0)
Get(vec, k) ==
    IF \E i \in 1..Len(vec) : vec[i].kw = k
    THEN vec[CHOOSE i \in 1..Len(vec) : vec[i].kw = k].w
    ELSE Zero

\* the keywords of the model; a set of them is iterated in the order of Vocabulary
\* (the order of a Python set of strings is fixed within one process)
KwFlood == <<"f", "l", "o", "o", "d", "s">>
KwFloor == <<"f", "l", "o", "o", "r", "s">>
KwFog == <<"f", "o", "g">>
KwIce == <<"i", "c", "e">>
Vocabulary == <<KwFlood, KwFloor, KwFog, KwIce>>

RECURSIVE Ordered(_, _)
Ordered(order, ks) ==
    IF order = <<>> THEN <<>>
    ELSE (IF Head(order) \in ks THEN <<Head(order)>> ELSE <<>>) \o Ordered(Tail(order), ks)

\* cosine_similarity(vec1, vec2)
cosine_similarity(vec1, vec2) ==
    LET all_keys == Ordered(Vocabulary, {vec1[i].kw : i \in 1..Len(vec1)}
                                          \cup {vec2[i].kw : i \in 1..Len(vec2)})
        dot_product == FSum([i \in 1..Len(all_keys) |->
                                FMul(Get(vec1, all_keys[i]), Get(vec2, all_keys[i]))])
        norm1 == FSqrt(FSum([i \in 1..Len(vec1) |-> FMul(vec1[i].w, vec1[i].w)]))
        norm2 == FSqrt(FSum([i \in 1..Len(vec2) |-> FMul(vec2[i].w, vec2[i].w)]))
    IN IF all_keys = <<>> THEN Zero
       ELSE IF norm1 = Zero \/ norm2 = Zero THEN Zero
       ELSE FDiv(dot_product, FMul(norm1, norm2))

\* [i for i, doc in enumerate(keywords_list) if kw in doc]
RECURSIVE docs_with(_, _, _)
docs_with(docs, kw, i) ==
    IF i > Len(docs) THEN <<>>
    ELSE (IF kw \in Range(docs[i]) THEN <<i>> ELSE <<>>) \o docs_with(docs, kw, i + 1)

\* the list "similarities": for i in docs_with_kw1, for j in docs_with_kw2, in this order
Similarities(vectors, ds1, ds2) ==
    [n \in 1..(Len(ds1) * Len(ds2)) |->
        cosine_similarity(vectors[ds1[((n - 1) \div Len(ds2)) + 1]],
                          vectors[ds2[((n - 1) % Len(ds2)) + 1]])]

\* cooccurrence[pair] of build_cooccurrence_matrix: the number of documents holding
\* both keywords of a pair of distinct keywords (0: the pair is no key of the dict)
cooccurrence(docs, kw1, kw2) ==
    IF kw1 = kw2 THEN 0
    ELSE Cardinality({d \in DOMAIN docs : kw1 \in Range(docs[d]) /\ kw2 \in Range(docs[d])})

COOCCURRENCE_WEIGHT == Fl(3, 10, 0)

\* calculate_keyword_similarity(kw1, kw2, vocab, tfidf_vectors, keywords_list, cooccurrence)
calculate_keyword_similarity(kw1, kw2, docs) ==
    LET str_sim == string_similarity(kw1, kw2)
        docs_with_kw1 == docs_with(docs, kw1, 1)
        docs_with_kw2 == docs_with(docs, kw2, 1)
        similarities == Similarities(tfidf_vectorize(docs), docs_with_kw1, docs_with_kw2)
        semantic_sim == IF docs_with_kw1 # <<>> /\ docs_with_kw2 # <<>>
                        THEN FDiv(FSum(similarities), Float(Len(similarities)))
                        ELSE Zero
        count == cooccurrence(docs, kw1, kw2)
        scaled == FDiv(Ln(count + 1, 1), Ln(10, 1))
        cooccurrence_sim == IF count = 0 THEN Zero
                            ELSE IF FGeq(scaled, One) THEN One ELSE scaled
    IN [str |-> str_sim, sem |-> semantic_sim, cooc |-> cooccurrence_sim,
        combined |-> FAdd(FAdd(FMul(Fl(5, 10, 0), str_sim), FMul(Fl(3, 10, 0), semantic_sim)),
                          FMul(COOCCURRENCE_WEIGHT, cooccurrence_sim))]

----------------------------------------------------------------------------
(* keyword_classifier.py: hierarchical_clustering and the run around it *)

\* the longest raw keyword, the longest mixed collection of documents and the
\* longest collection of copies of one document the model draws
MaxRaw == 4
MaxShort == 3
MaxDocs == 8

Alphabet == {"<", ">", "A", "a", "-", " ", ".", "1"}
RawStrings == UNION {[1..n -> Alphabet] : n \in 0..MaxRaw}

\* item['keywords'] of one document: normalized keywords, repetitions allowed
DocTypes ==
    {<<KwFlood, KwFloor>>, <<KwFloor, KwFog>>, <<KwFlood, KwFlood, KwFog>>, <<KwFog, KwIce>>}

DocLists ==
    UNION {[1..n -> DocTypes] : n \in 1..MaxShort}
        \cup {[i \in 1..n |-> <<KwFlood, KwFloor>>] : n \in 1..MaxDocs}

SEMANTIC_SIMILARITY_THRESHOLD == Fl(6, 10, 0)
STRING_SIMILARITY_THRESHOLD == Fl(8, 10, 0)
MIN_CLUSTER_SIZE == 2

\* the values the two thresholds of the module are set to
SemanticThresholds == {Fl(3, 10, 0), SEMANTIC_SIMILARITY_THRESHOLD, Fl(9, 10, 0)}
StringThresholds == {STRING_SIMILARITY_THRESHOLD, Fl(9, 10, 0)}

\* all_keywords of analyze_and_classify_keywords
all_keywords(docs) == UNION {Range(docs[d]) : d \in DOMAIN docs}

Reverse(s) == [i \in 1..Len(s) |-> s[Len(s) + 1 - i]]

\* list(all_keywords): one of two iteration orders of the set
ListOf(ks, rev) == IF rev THEN Reverse(Ordered(Vocabulary, ks)) ELSE Ordered(Vocabulary, ks)

\* a gate that lets a pair through when it is at most as similar as the thresholds
GatedBelow(sim, str_sim, th) == FGeq(th.semantic, sim) \/ FGeq(th.string, str_sim)

\* sim >= SEMANTIC_SIMILARITY_THRESHOLD or string_similarity(kw1, kw2) >= STRING_SIMILARITY_THRESHOLD
Gated(sim, str_sim, th) == FGeq(sim, th.semantic) \/ FGeq(str_sim, th.string)

\* the two loops over keyword_list: kw1 = kl[i], kw2 = kl[j] for i < j, with the
\* two values the gate of the pair reads
RECURSIVE PairsFrom(_, _, _, _)
PairsFrom(kl, docs, i, j) ==
    IF i > Len(kl) THEN <<>>
    ELSE IF j > Len(kl) THEN PairsFrom(kl, docs, i + 1, i + 2)
    ELSE <<[sim |-> calculate_keyword_similarity(kl[i], kl[j], docs).combined,
            str |-> string_similarity(kl[i], kl[j]),
            kw1 |-> kl[i], kw2 |-> kl[j]]>> \o PairsFrom(kl, docs, i, j + 1)

\* keyword_pairs before the sort: the pairs the gate lets through
RECURSIVE GatedPairs(_, _)
GatedPairs(ps, th) ==
    IF ps = <<>> THEN <<>>
    ELSE (IF Gated(Head(ps).sim, Head(ps).str, th)
          THEN <<[sim |-> Head(ps).sim, kw1 |-> Head(ps).kw1, kw2 |-> Head(ps).kw2]>>
          ELSE <<>>) \o GatedPairs(Tail(ps), th)

\* keyword_pairs.sort(reverse=True, key=lambda x: x[0]): the sort is stable, pairs
\* of equal similarity keep their order
InsertPair(p, sorted) ==
    LET k == Cardinality({i \in 1..Len(sorted) : FGeq(sorted[i].sim, p.sim)})
    IN SubSeq(sorted, 1, k) \o <<p>> \o SubSeq(sorted, k + 1, Len(sorted))

RECURSIVE SortPairs(_)
SortPairs(ps) ==
    IF ps = <<>> THEN <<>>
    ELSE InsertPair(ps[Len(ps)], SortPairs(SubSeq(ps, 1, Len(ps) - 1)))

\* the merge without "del clusters[cluster2]"
MergedKeepingBoth(cl, cluster1, cluster2) ==
    [c \in DOMAIN cl |-> IF c = cluster1 THEN cl[cluster1] \o cl[cluster2] ELSE cl[c]]

\* a merge that moves the last keyword of cluster2 only
MergedLastOnly(cl, cluster1, cluster2) ==
    [c \in DOMAIN cl \ {cluster2} |->
        IF c = cluster1 THEN Append(cl[cluster1], cl[cluster2][Len(cl[cluster2])]) ELSE cl[c]]

\* clusters after the keywords of cluster2 were appended to cluster1 and cluster2 deleted
Merged(cl, cluster1, cluster2) ==
    [c \in DOMAIN cl \ {cluster2} |->
        IF c = cluster1 THEN cl[cluster1] \o cl[cluster2] ELSE cl[c]]

\* keyword_to_cluster after the same loop
Repointed(k2c, cl, cluster1, cluster2) ==
    [kw \in DOMAIN k2c |-> IF kw \in Range(cl[cluster2]) THEN cluster1 ELSE k2c[kw]]

\* the first of the shortest keywords
category_name_shortest(keywords) ==
    LET best == CHOOSE i \in 1..Len(keywords) :
                    /\ \A j \in 1..Len(keywords) : Len(keywords[i]) <= Len(keywords[j])
                    /\ \A j \in 1..(i - 1) : Len(keywords[j]) > Len(keywords[i])
    IN keywords[best]

\* max(keywords, key=lambda x: (len(x), keywords.count(x))): the first of the greatest
category_name(keywords) ==
    LET key(x) == <<Len(x), Count(keywords, x)>>
        less(a, b) == a[1] < b[1] \/ (a[1] = b[1] /\ a[2] < b[2])
        best == CHOOSE i \in 1..Len(keywords) :
                    /\ \A j \in 1..Len(keywords) : ~less(key(keywords[i]), key(keywords[j]))
                    /\ \A j \in 1..(i - 1) : less(key(keywords[j]), key(keywords[i]))
    IN keywords[best]

\* the dict "categories": the clusters of MIN_CLUSTER_SIZE keywords or more, by name
Categories(cl) ==
    LET kept == {c \in DOMAIN cl : Len(cl[c]) >= MIN_CLUSTER_SIZE}
    IN [name \in {category_name(cl[c]) : c \in kept} |->
           Range(cl[CHOOSE c \in kept : category_name(cl[c]) = name])]

\* one call of normalize_keyword, as split_keywords makes it, and a second call on
\* what the first returned
NormalizeRaw ==
    /\ pc = "kw_start"
    /\ \E raw \in RawStrings :
          probe' = [raw |-> raw,
                    once |-> normalize_keyword(raw),
                    twice |-> normalize_keyword(normalize_keyword(raw))]
    /\ pc' = "normalized"
    /\ UNCHANGED <<keywords_list, keyword_list, similarity, keyword_pairs,
                   keyword_to_cluster, clusters, merges, categories, threshold, runs>>
    /\ UNCHANGED <<script, DRY_RUN, resolverVars, runVars>>

\* analyze_and_classify_keywords up to the call of hierarchical_clustering
ExtractKeywords ==
    /\ pc = "kw_start"
    /\ \E docs \in DocLists \cup {<<>>} :
          /\ keywords_list' = docs
          /\ pc' = IF docs = <<>> THEN "kw_done" ELSE "extracted"
    /\ probe' = None
    /\ UNCHANGED <<keyword_list, similarity, keyword_pairs, keyword_to_cluster, clusters,
                   merges, categories, threshold, runs>>
    /\ UNCHANGED <<script, DRY_RUN, resolverVars, runVars>>

\* one call of calculate_keyword_similarity on the documents extracted, and the
\* call with the two keywords exchanged
Score ==
    /\ pc = "extracted"
    /\ \E i, j \in 1..Len(Vocabulary) :
          /\ i < j
          /\ probe' = [kw1 |-> Vocabulary[i], kw2 |-> Vocabulary[j],
                       forward |-> calculate_keyword_similarity(Vocabulary[i], Vocabulary[j],
                                                                keywords_list),
                       backward |-> calculate_keyword_similarity(Vocabulary[j], Vocabulary[i],
                                                                 keywords_list)]
    /\ pc' = "scored"
    /\ UNCHANGED <<keywords_list, keyword_list, similarity, keyword_pairs, keyword_to_cluster,
                   clusters, merges, categories, threshold, runs>>
    /\ UNCHANGED <<script, DRY_RUN, resolverVars, runVars>>

\* hierarchical_clustering, the similarities: every pair of keyword_list is scored
CompareKeywords ==
    /\ pc = "extracted"
    /\ \E rev \in BOOLEAN :
          LET kl == ListOf(all_keywords(keywords_list), rev)
          IN /\ keyword_list' = kl
             /\ similarity' = PairsFrom(kl, keywords_list, 1, 2)
    /\ pc' = "compared"
    /\ UNCHANGED <<keywords_list, keyword_pairs, keyword_to_cluster, clusters, merges,
                   categories, threshold, runs, probe>>
    /\ UNCHANGED <<script, DRY_RUN, resolverVars, runVars>>

\* hierarchical_clustering, from the gate to the union pass: the pairs are gated by
\* the thresholds and sorted, every keyword gets a cluster of its own; the
\* thresholds of a second clustering of the same documents are no lower
StartClustering ==
    /\ pc \in {"compared", "named"}
    /\ \E semantic \in SemanticThresholds, string \in StringThresholds :
          LET th == [semantic |-> semantic, string |-> string]
          IN /\ runs # <<>> => /\ FGeq(semantic, runs[1].threshold.semantic)
                               /\ FGeq(string, runs[1].threshold.string)
             /\ threshold' = th
             /\ keyword_pairs' = SortPairs(GatedPairs(similarity, th))
    /\ keyword_to_cluster' = [kw \in Range(keyword_list) |->
                                 (CHOOSE i \in 1..Len(keyword_list) : keyword_list[i] = kw) - 1]
    /\ clusters' = [c \in 0..(Len(keyword_list) - 1) |-> <<keyword_list[c + 1]>>]
    /\ merges' = 0
    /\ categories' = EmptyDict
    /\ pc' = "union"
    /\ UNCHANGED <<keywords_list, keyword_list, similarity, runs, probe>>
    /\ UNCHANGED <<script, DRY_RUN, resolverVars, runVars>>

\* one iteration of "for sim, kw1, kw2 in keyword_pairs"
UnionStep ==
    /\ pc = "union"
    /\ keyword_pairs # <<>>
    /\ LET cluster1 == keyword_to_cluster[Head(keyword_pairs).kw1]
           cluster2 == keyword_to_cluster[Head(keyword_pairs).kw2]
       IN IF cluster1 # cluster2
          THEN /\ keyword_to_cluster' = Repointed(keyword_to_cluster, clusters, cluster1, cluster2)
               /\ clusters' = Merged(clusters, cluster1, cluster2)
               /\ merges' = merges + 1
          ELSE UNCHANGED <<keyword_to_cluster, clusters, merges>>
    /\ keyword_pairs' = Tail(keyword_pairs)
    /\ UNCHANGED <<keywords_list, keyword_list, similarity, categories, threshold, runs,
                   probe, pc>>
    /\ UNCHANGED <<script, DRY_RUN, resolverVars, runVars>>

\* the end of hierarchical_clustering: the categories are named and returned
NameCategories ==
    /\ pc = "union"
    /\ keyword_pairs = <<>>
    /\ categories' = Categories(clusters)
    /\ runs' = Append(runs, [threshold |-> threshold, merges |-> merges,
                             clusters |-> Cardinality(DOMAIN clusters),
                             categories |-> Cardinality(DOMAIN Categories(clusters))])
    /\ pc' = IF runs = <<>> THEN "named" ELSE "kw_done"
    /\ UNCHANGED <<keywords_list, keyword_list, similarity, keyword_pairs,
                   keyword_to_cluster, clusters, merges, threshold, probe>>
    /\ UNCHANGED <<script, DRY_RUN, resolverVars, runVars>>

\* keyword_categories[kw] of the defaultdict(set): the empty set for a missing key
Labels(kc, kw) == IF kw \in DOMAIN kc THEN kc[kw] ELSE {}

\* the first loop of assign_multi_category: every keyword of a category gets it
BaseCategories(cats) ==
    [kw \in UNION {cats[name] : name \in DOMAIN cats} |->
        {name \in DOMAIN cats : kw \in cats[name]}]

\* a loop body that gives the categories of the document to its first keyword only
ExpandedFirstOnly(kc, doc_keywords) ==
    LET doc_categories == UNION {Labels(kc, kw) : kw \in Range(doc_keywords)}
    IN [kw \in DOMAIN kc \cup Range(doc_keywords) |->
           IF kw = doc_keywords[1] THEN Labels(kc, kw) \cup doc_categories
           ELSE Labels(kc, kw)]

\* one iteration of "for doc_keywords in keywords_list": the categories of the
\* keywords of the document are collected and given to each of them
Expanded(kc, doc_keywords) ==
    LET doc_categories == UNION {Labels(kc, kw) : kw \in Range(doc_keywords)}
    IN [kw \in DOMAIN kc \cup Range(doc_keywords) |->
           IF kw \in Range(doc_keywords) THEN Labels(kc, kw) \cup doc_categories
           ELSE Labels(kc, kw)]

\* the loop over the documents from the one after "done" on
RECURSIVE ExpandedFrom(_, _, _)
ExpandedFrom(kc, docs, done) ==
    IF done >= Len(docs) THEN kc
    ELSE ExpandedFrom(Expanded(kc, docs[done + 1]), docs, done + 1)

\* assign_multi_category(keywords_list, categories, all_keywords) up to its second
\* loop, called on the categories hierarchical_clustering returned
AssignBaseCategories ==
    /\ pc = "named"
    /\ probe' = [keyword_categories |-> BaseCategories(categories), doc |-> 0]
    /\ pc' = "assigning"
    /\ UNCHANGED <<keywords_list, keyword_list, similarity, keyword_pairs,
                   keyword_to_cluster, clusters, merges, categories, threshold, runs>>
    /\ UNCHANGED <<script, DRY_RUN, resolverVars, runVars>>

\* one iteration of the second loop; after the last the result is returned, each
\* set of categories as a sorted list, which is the set again
AssignDocument ==
    /\ pc = "assigning"
    /\ probe.doc < Len(keywords_list)
    /\ probe' = [keyword_categories |->
                     Expanded(probe.keyword_categories, keywords_list[probe.doc + 1]),
                 doc |-> probe.doc + 1]
    /\ pc' = IF probe.doc + 1 = Len(keywords_list) THEN "assigned" ELSE "assigning"
    /\ UNCHANGED <<keywords_list, keyword_list, similarity, keyword_pairs,
                   keyword_to_cluster, clusters, merges, categories, threshold, runs>>
    /\ UNCHANGED <<script, DRY_RUN, resolverVars, runVars>>

\* fetch_items_with_retry(zot, limit, start, max_retries=3), called with the default
max_retries == 3

\* "sub in s" for two Python strings
Contains(s, sub) == \E i \in 0..(Len(s) - Len(sub)) : SubSeq(s, i + 1, i + Len(sub)) = sub

\* what zot.items(limit=limit, start=start) comes to: a page of items, or an
\* exception of the client with the status of the response and the text str(e)
\* gives, which names the status and the address called and so the library id
ZotAnswers ==
    {[status |-> 200, text |-> <<>>],
     [status |-> 502, text |-> <<"C", "o", "d", "e", ":", " ", "5", "0", "2">>],
     [status |-> 502, text |-> <<"B", "a", "d", " ", "G", "a", "t", "e", "w", "a", "y">>],
     [status |-> 404, text |-> <<"C", "o", "d", "e", ":", " ", "4", "0", "4">>],
     [status |-> 403, text |-> <<"4", "0", "3", " ", "u", "s", "e", "r", "s", "/", "1",
                                 "5", "0", "2", "3">>]}

\* "502" in error_str or "Bad Gateway" in error_str
Retried(e) ==
    \/ Contains(e.text, <<"5", "0", "2">>)
    \/ Contains(e.text, <<"B", "a", "d", " ", "G", "a", "t", "e", "w", "a", "y">>)

\* one iteration of "for attempt in range(max_retries)": the call, and what its
\* answer leads to
FetchAttempt ==
    /\ pc \in {"kw_start", "fetching"}
    /\ LET st == IF pc = "kw_start"
                 THEN [attempt |-> 0, answers |-> <<>>, waits |-> <<>>, outcome |-> "running"]
                 ELSE probe
       IN /\ st.attempt < max_retries
          /\ \E answer \in ZotAnswers :
                IF answer.status = 200
                THEN /\ probe' = [st EXCEPT !.answers = Append(@, answer),
                                            !.outcome = "returned"]
                     /\ pc' = "fetch_done"
                ELSE IF Retried(answer)
                THEN /\ probe' = [st EXCEPT !.answers = Append(@, answer),
                                            !.waits = Append(@, (st.attempt + 1) * 2),
                                            !.attempt = @ + 1]
                     /\ pc' = "fetching"
                ELSE /\ probe' = [st EXCEPT !.answers = Append(@, answer),
                                            !.outcome = "raised"]
                     /\ pc' = "fetch_done"
    /\ UNCHANGED <<keywords_list, keyword_list, similarity, keyword_pairs,
                   keyword_to_cluster, clusters, merges, categories, threshold, runs>>
    /\ UNCHANGED <<script, DRY_RUN, resolverVars, runVars>>

\* the loop is over without a return: raise Exception("... retried max_retries times")
FetchExhausted ==
    /\ pc = "fetching"
    /\ probe.attempt >= max_retries
    /\ probe' = [probe EXCEPT !.outcome = "failed"]
    /\ pc' = "fetch_done"
    /\ UNCHANGED <<keywords_list, keyword_list, similarity, keyword_pairs,
                   keyword_to_cluster, clusters, merges, categories, threshold, runs>>
    /\ UNCHANGED <<script, DRY_RUN, resolverVars, runVars>>

\* keyword_classifier.py starts: it shares nothing with the organizers, whose
\* variables stay as they are
InitKeywords ==
    /\ NoKeywords
    /\ script = "keyword_classifier"
    /\ DRY_RUN = FALSE
    /\ pc = "kw_start"
    /\ cache = EmptyDict
    /\ remote = {}
    /\ nextKey = 0
    /\ file = NoFile
    /\ calls = <<>>
    /\ last = NoCall
    /\ prev = NoCall
    /\ nCalls = 0
    /\ items = <<>>
    /\ fetched = <<>>
    /\ todo = <<>>
    /\ batch_idx = 0
    /\ batches = <<>>
    /\ classifications = <<>>
    /\ response = "none"
    /\ pos = 0
    /\ applied = <<>>
    /\ organized_count = 0
    /\ faults = 0
    /\ raisedIn = {}

NextKeywords ==
    \/ NormalizeRaw
    \/ ExtractKeywords
    \/ Score
    \/ CompareKeywords
    \/ StartClustering
    \/ UnionStep
    \/ NameCategories
    \/ AssignBaseCategories
    \/ AssignDocument
    \/ FetchAttempt
    \/ FetchExhausted

SpecKeywords == InitKeywords /\ [][NextKeywords]_vars

----------------------------------------------------------------------------
(* keyword_top20_analyzer.py: apply_merge_to_all_keywords *)

\* the greatest frequency of a keyword in the counter
MaxFrequency == 2

\* the keys of keyword_counter, in lower case as split_keywords leaves them, in the
\* order the counter is iterated in
CounterKeys == <<<<"a">>, <<"b">>, <<"c">>>>

\* keyword_counter: keywords counted at least once
Counters == UNION {[ks -> 1..MaxFrequency] : ks \in SUBSET Range(CounterKeys)}

\* an item of normalized_keywords; one without 'variants' reads as [normalized]
NormalizedItems ==
    {[keyword |-> k, variants |-> v] :
        k \in {<<"A">>, <<"b">>},
        v \in {<<<<"A">>>>, <<<<"b">>>>, <<<<"A">>, <<"b">>>>, <<<<"b">>, <<"c">>>>}}

\* a rule of merge_rules; one without 'from' or 'to' reads as the empty string
MergeRules == {[from |-> f, to |-> t] : f \in {<<>>, <<"c">>, <<"A">>}, t \in {<<>>, <<"A">>, <<"b">>}}

\* what the classifier's answer can be: two items and one rule at most
MergeResults ==
    {[normalized_keywords |-> ns, merge_rules |-> rs] :
        ns \in {<<>>} \cup {<<i>> : i \in NormalizedItems}
                      \cup {<<i, j>> : i, j \in NormalizedItems},
        rs \in {<<>>} \cup {<<r>> : r \in MergeRules}}

\* "for variant in item.get('variants', [normalized])"
RECURSIVE WithVariants(_, _, _)
WithVariants(m, variants, normalized) ==
    IF variants = <<>> THEN m
    ELSE WithVariants(Put(m, Lower(Head(variants)), normalized), Tail(variants), normalized)

\* "for item in normalized_keywords"
RECURSIVE WithItems(_, _)
WithItems(m, its) ==
    IF its = <<>> THEN m
    ELSE WithItems(WithVariants(m, Head(its).variants, Head(its).keyword), Tail(its))

\* "for rule in merge_rules"
RECURSIVE WithRules(_, _)
WithRules(m, rules) ==
    IF rules = <<>> THEN m
    ELSE LET from_kw == Lower(Head(rules).from)
             to_kw == Lower(Head(rules).to)
         IN WithRules(IF Truthy(from_kw) /\ Truthy(to_kw) THEN Put(m, from_kw, to_kw) ELSE m,
                      Tail(rules))

\* the dict variant_to_normalized
variant_to_normalized(merge_result) ==
    WithRules(WithItems(EmptyDict, merge_result.normalized_keywords), merge_result.merge_rules)

\* variant_to_normalized.get(keyword.lower(), keyword)
NormalizedOf(m, keyword) == IF Lower(keyword) \in DOMAIN m THEN m[Lower(keyword)] ELSE keyword

\* merged_counter[normalized] = frequency
Overwritten(mc, normalized, frequency) == Put(mc, normalized, frequency)

\* merged_counter[normalized] += frequency
Accumulated(mc, normalized, frequency) ==
    Put(mc, normalized, (IF normalized \in DOMAIN mc THEN mc[normalized] ELSE 0) + frequency)

\* "for keyword, frequency in keyword_counter.items()"
RECURSIVE MergedOver(_, _, _, _)
MergedOver(mc, keys, keyword_counter, m) ==
    IF keys = <<>> THEN mc
    ELSE MergedOver(Accumulated(mc, NormalizedOf(m, Head(keys)), keyword_counter[Head(keys)]),
                    Tail(keys), keyword_counter, m)

\* apply_merge_to_all_keywords(keyword_counter, merge_result)
apply_merge_to_all_keywords(keyword_counter, merge_result) ==
    MergedOver(EmptyDict, Ordered(CounterKeys, DOMAIN keyword_counter), keyword_counter,
               variant_to_normalized(merge_result))

\* main() of keyword_top20_analyzer.py calls apply_merge_to_all_keywords
ApplyMerge ==
    /\ pc = "merge_start"
    /\ \E keyword_counter \in Counters, merge_result \in MergeResults :
          probe' = [keyword_counter |-> keyword_counter,
                    merge_result |-> merge_result,
                    variant_to_normalized |-> variant_to_normalized(merge_result),
                    merged_counter |-> apply_merge_to_all_keywords(keyword_counter,
                                                                   merge_result)]
    /\ pc' = "merged"
    /\ UNCHANGED <<keywords_list, keyword_list, similarity, keyword_pairs,
                   keyword_to_cluster, clusters, merges, categories, threshold, runs>>
    /\ UNCHANGED <<script, DRY_RUN, resolverVars, runVars>>

\* keyword_top20_analyzer.py starts: the variables of the other scripts stay idle
InitMerge ==
    /\ NoKeywords
    /\ script = "keyword_top20_analyzer"
    /\ DRY_RUN = FALSE
    /\ pc = "merge_start"
    /\ cache = EmptyDict
    /\ remote = {}
    /\ nextKey = 0
    /\ file = NoFile
    /\ calls = <<>>
    /\ last = NoCall
    /\ prev = NoCall
    /\ nCalls = 0
    /\ items = <<>>
    /\ fetched = <<>>
    /\ todo = <<>>
    /\ batch_idx = 0
    /\ batches = <<>>
    /\ classifications = <<>>
    /\ response = "none"
    /\ pos = 0
    /\ applied = <<>>
    /\ organized_count = 0
    /\ faults = 0
    /\ raisedIn = {}

SpecMerge == InitMerge /\ [][ApplyMerge]_vars

----------------------------------------------------------------------------
(* Claims about the path resolver *)

\* C1: resolving the same path twice in a row, with no remote change in between and
\* no failing create call, returns the same identifier both times and the second
\* call issues no create call.
C1_Idempotent ==
    (last.made /\ prev.made /\ last.path = prev.path
        /\ prev.failedAt = 0 /\ last.failedAt = 0)
    => (last.ret = prev.ret /\ last.calls = <<>>)

PathABC == <<"A", "/", "B", "/", "C">>

C2_Case ==
    /\ last.made /\ ~DRY_RUN
    /\ last.path = PathABC
    /\ last.cacheBefore = EmptyDict /\ last.remoteBefore = {}
    /\ last.failedAt = 0

\* C2: in live mode, from an empty cache and an empty remote tree, resolving "A/B/C"
\* (every create call succeeding) issues exactly the create calls A, B, C in this
\* order, A without parent, B under the id returned for A, C under the id returned
\* for B; the cache then holds exactly three entries and the call returns C's id.
C2_CreatesChain ==
    C2_Case =>
        /\ Len(last.calls) = 3
        /\ \A i \in 1..3 : last.calls[i].op = "create" /\ Truthy(last.calls[i].res)
        /\ last.calls[1].name = <<"A">> /\ last.calls[1].arg = None
        /\ last.calls[2].name = <<"B">> /\ last.calls[2].arg = last.calls[1].res
        /\ last.calls[3].name = <<"C">> /\ last.calls[3].arg = last.calls[2].res
        /\ DOMAIN cache = {<<"A">>, <<"B">>, <<"C">>}
        /\ last.ret = last.calls[3].res
        /\ {[name |-> c.name, parent |-> c.parent] : c \in remote} =
              {[name |-> <<"A">>, parent |-> FalseVal],
               [name |-> <<"B">>, parent |-> last.calls[1].res],
               [name |-> <<"C">>, parent |-> last.calls[2].res]}

C2_Witness == C2_Case /\ last.ret = <<"K3">>

NoSegment(path) == ~Truthy(path) \/ path = <<"Unclassified">> \/ Parts(path) = <<>>

\* C3: resolving the empty path, the path "Unclassified" or a path without any
\* non-empty segment returns None, issues no remote call and leaves the in-memory
\* cache and the cache file as they were.
C3_NoEffect ==
    (last.made /\ NoSegment(last.path)) =>
        /\ last.ret = None
        /\ calls = <<>>
        /\ cache = last.cacheBefore
        /\ file = last.fileBefore
        /\ remote = last.remoteBefore

C3_Witness ==
    /\ last.made /\ prev.made
    /\ last.path = <<" ", "/", " ">> /\ prev.path = <<"Unclassified">>
    /\ DOMAIN cache # {}

EntryOf(c, name) == IF name \in DOMAIN c THEN <<c[name]>> ELSE <<>>

\* the key of a cache entry: organize.py stores {'key', 'parent'}, organizer.py the key
KeyIn(e) == IF script = "organize" THEN e.key ELSE e

\* every entry of dict d that is not as in dict before
Changed(d, before) == {n \in DOMAIN d : EntryOf(d, n) # EntryOf(before, n)}

\* C6: when a create call fails during a resolution, the resolution returns None and
\* the failed call is its last remote call (no later segment is created); the only
\* cache entries added are those of the creates that succeeded before it, and the
\* cache file gains nothing but entries of the in-memory cache.
C6_FailureStops ==
    (last.made /\ last.failedAt > 0) =>
        /\ last.ret = None
        /\ last.failedAt = Len(last.calls)
        /\ \A n \in Changed(cache, last.cacheBefore) :
              \E i \in 1..Len(last.calls) :
                  /\ last.calls[i].name = n
                  /\ Truthy(last.calls[i].res)
                  /\ KeyIn(cache[n]) = last.calls[i].res
        /\ \A n \in Changed(file.data, last.fileBefore.data) :
              EntryOf(file.data, n) = EntryOf(cache, n)

----------------------------------------------------------------------------
(* Claims about a run of main() *)

Mutating == {"create", "addto", "tag"}

\* the entries of the current batch's answer iterated so far
Done == {applied[i] : i \in 1..Len(applied)}

\* C4: no placeholder identifier (prefixed "fake_") is ever passed to the remote
\* add-to-collection or tag operation, nor as parentCollection of a create call.
C4_NoPlaceholderSent ==
    \A i \in 1..Len(calls) :
        calls[i].op \in Mutating => ~IsPlaceholder(calls[i].arg)

\* a dry-run resolution has just synthesized a placeholder below a placeholder parent
C4_Witness ==
    /\ DRY_RUN /\ pc = "apply" /\ applied # <<>>
    /\ \E k \in Range(applied[Len(applied)].rets) :
          IsPlaceholder(k) /\ Len(k) > 3

\* C5: when DRY_RUN is true, no step of a run issues a create, an add-to-collection or
\* a tag call.
C5_DryRunMutatesNothing ==
    DRY_RUN => \A i \in 1..Len(calls) : calls[i].op \notin Mutating

\* a dry run ended after an entry was resolved to a target
C5_Witness ==
    /\ DRY_RUN /\ pc = "done"
    /\ \E d \in Done : \E k \in Range(d.rets) : Truthy(k)

Ids(q) == [i \in 1..Len(q) |-> q[i].id]

RECURSIVE Concat(_)
Concat(qs) == IF qs = <<>> THEN <<>> ELSE Head(qs) \o Concat(Tail(qs))

\* C7: the batches sliced so far are consecutive slices of the todo list, each of
\* 1..BATCH_SIZE papers, whose concatenation is a prefix of the todo list; when the
\* run has ended the concatenation is the whole todo list and the number of batches
\* is the ceiling of len(todo) / BATCH_SIZE.
C7_BatchesPartitionTodo ==
    LET joined == Concat([b \in 1..Len(batches) |-> Ids(batches[b])])
    IN /\ \A b \in 1..Len(batches) : Len(batches[b]) \in 1..BATCH_SIZE
       /\ Len(joined) <= Len(todo)
       /\ joined = SubSeq(Ids(todo), 1, Len(joined))
       /\ \A i, j \in 1..Len(joined) : i # j => joined[i] # joined[j]
       /\ pc \in {"summary", "done"} =>
             /\ joined = Ids(todo)
             /\ Len(batches) * BATCH_SIZE >= Len(todo)
             /\ (Len(batches) - 1) * BATCH_SIZE < Len(todo)

C7_Witness ==
    pc = "done" /\ Len(batches) = 2 /\ Len(batches[1]) = BATCH_SIZE /\ Len(batches[2]) = 1

\* the 0-based positions in the current batch of the paper with this id
PositionsOf(id) == {i \in 0..(Len(batch) - 1) : batch[i + 1].id = id}

Usable(k) == Truthy(k) /\ ~IsPlaceholder(k)

\* C8: in live mode a paper of the batch is moved only if the classifier returned a
\* decision for its in-batch index i, 0 <= i < len(batch), whose path resolved to a
\* usable folder; other indices, negative ones included, cause no move.
C8_MoveOnlyForDecidedIndex ==
    (~DRY_RUN /\ pc = "apply") =>
        \A d \in Done :
            (\E j \in 1..Len(d.calls) : d.calls[j].op = "addto") =>
                \E d2 \in Done :
                    /\ ParseInt(d2.k).ok
                    /\ ParseInt(d2.k).val \in PositionsOf(d.id)
                    /\ \E k \in Range(d2.rets) : Usable(k)

\* C9: a paper that carried the processed tag when fetched is in no todo list and in
\* no batch, and no add-to-collection or tag call is issued for it.
C9_TaggedNeverQueued ==
    \A i \in 1..Len(fetched) :
        AUTO_TAG_NAME \in Range(fetched[i].tags) =>
            /\ \A t \in 1..Len(todo) : todo[t].id # i
            /\ \A b \in 1..Len(batches) : \A t \in 1..Len(batches[b]) : batches[b][t].id # i
            /\ \A c \in 1..Len(calls) : calls[c].item # i

\* a live run that moved a paper while another fetched paper carried the tag
C9_Witness ==
    /\ ~DRY_RUN /\ pc = "apply"
    /\ \E i \in 1..Len(fetched) : AUTO_TAG_NAME \in Range(fetched[i].tags)
    /\ \E c \in 1..Len(calls) : calls[c].op = "addto"

\* C10: an exception caught by the per-index except clause never aborts the run (the
\* only abort after it is that of a later answer that is no dict); whenever the loop
\* has left a batch every entry of that batch's answer was iterated, and when the
\* run has ended every batch was sliced.
C10_ExceptionContained ==
    raisedIn # {} =>
        /\ pc = "aborted" => Returned(script, response) # "dict"
        /\ pc \in {"batch", "summary", "done"} => pos = Len(classifications)
        /\ pc \in {"summary", "done"} => Len(batches) = total_batches

\* an exception was caught in the first of two batches, before the answer's last entry
C10_Witness ==
    /\ pc = "done" /\ Len(batches) = 2 /\ 0 \in raisedIn
    /\ \E i \in 1..Len(applied) : ~applied[i].raised

\* a classifier call that came back with something else than a JSON object
Malformed == response \in Responses \ {"object"}

\* C11: when the classifier call of a batch raises, returns text that is no JSON, or
\* JSON that is no object, the run is not aborted and nothing is done for any paper of
\* the batch: no entry is iterated, no path resolved, no remote call issued.
C11_MalformedIsNoDecision ==
    Malformed =>
        /\ pc # "aborted"
        /\ classifications = <<>> /\ applied = <<>>
        /\ pc = "apply" => calls = <<>>

----------------------------------------------------------------------------
(* Claims about name collisions, cache misses and the cache file *)

\* the folder the cache of the running script records under this name
CachedKey(c, name) == KeyIn(c[name])

\* the parent recorded for a cached name: organize.py keeps it in the cache entry,
\* organizer.py keeps none, the folder's parent in the remote tree stands for it
RecordedParent(c, r, name) ==
    IF script = "organize" THEN c[name].parent
    ELSE LET fs == {f \in r : f.key = c[name]}
         IN IF fs = {} THEN None
            ELSE LET f == CHOOSE g \in fs : TRUE
                 IN IF Truthy(f.parent) THEN f.parent ELSE None

\* the last resolution walked a two-segment path whose names were both cached, the
\* second one under another parent than the first one's folder
Collision ==
    /\ last.made /\ Truthy(last.path) /\ Len(Parts(last.path)) = 2
    /\ LET p == Parts(last.path)
       IN /\ p[1] # p[2]
          /\ p[1] \in DOMAIN last.cacheBefore /\ p[2] \in DOMAIN last.cacheBefore
          /\ RecordedParent(last.cacheBefore, last.remoteBefore, p[2])
                # CachedKey(last.cacheBefore, p[1])

\* C17: when a segment name is cached under another parent than the one the walk has
\* reached, the resolver goes on with the cached entry's identifier: it issues no
\* create call and returns the cached identifier of the last segment.
C17_CollisionUsesCached ==
    Collision =>
        /\ last.calls = <<>>
        /\ last.ret = CachedKey(last.cacheBefore, Parts(last.path)[2])

\* the folders of tree r with this name under this parent (None: top level)
Existing(r, name, parent) ==
    {f \in r : f.name = name /\ f.parent = (IF Truthy(parent) THEN parent ELSE FalseVal)}

\* C18: a create call is issued only for a folder the remote tree does not hold yet:
\* a segment missing from the cache is looked up in a fresh remote listing before it
\* is created, so a folder that exists remotely is reused.
C18_MissRefreshesFirst ==
    last.made =>
        \A i \in 1..Len(last.calls) :
            last.calls[i].op = "create" =>
                Existing(last.remoteBefore, last.calls[i].name, last.calls[i].arg) = {}

\* the last resolution created a folder
Created == last.made /\ \E i \in 1..Len(last.calls) : Truthy(last.calls[i].res)

\* C19: after a resolution that created a folder, and whose writes of the cache file
\* did not fail, the cache file is readable and holds exactly the in-memory cache.
C19_FileEqualsMemory ==
    (Created /\ ~last.writeFailed) => (file.exists /\ file.ok /\ file.data = cache)

\* the remote calls issued for the entries of the current batch iterated so far
RECURSIVE CallsOf(_)
CallsOf(done) == IF done = <<>> THEN <<>> ELSE Head(done).calls \o CallsOf(Tail(done))

\* C20: in live mode no paper is added to one collection twice and no paper is
\* tagged twice within a batch, whatever keys the classifier returned.
C20_MoveOnce ==
    ~DRY_RUN =>
        LET cs == CallsOf(applied)
        IN \A i, j \in 1..Len(cs) :
              (i < j /\ cs[i].op \in {"addto", "tag"} /\ cs[i].op = cs[j].op
                     /\ cs[i].item = cs[j].item)
                => cs[i].arg # cs[j].arg

----------------------------------------------------------------------------
(* Claims about keyword_classifier.py *)

\* every keyword of keyword_list is a member of exactly one cluster, once, and
\* keyword_to_cluster names that cluster
Partition ==
    /\ DOMAIN keyword_to_cluster = Range(keyword_list)
    /\ \A c \in DOMAIN clusters :
          /\ Range(clusters[c]) \subseteq Range(keyword_list)
          /\ Cardinality(Range(clusters[c])) = Len(clusters[c])
    /\ \A kw \in Range(keyword_list) :
          /\ Cardinality({c \in DOMAIN clusters : kw \in Range(clusters[c])}) = 1
          /\ keyword_to_cluster[kw] \in DOMAIN clusters
          /\ kw \in Range(clusters[keyword_to_cluster[kw]])

\* C12: before and after every step of the union pass, and when it is over, the
\* clusters are pairwise disjoint, cover the vocabulary, and keyword_to_cluster[k] is
\* the id of the cluster whose member list holds k
C12_ClustersPartition ==
    pc \in {"union", "named", "kw_done"} => Partition

\* two merges done, and pairs left to go through
C12_Witness ==
    /\ pc = "union"
    /\ merges >= 2
    /\ keyword_pairs # <<>>
    /\ \E c \in DOMAIN clusters : Len(clusters[c]) >= 3

\* C13: of two clusterings of the same documents, the second with thresholds no
\* lower than the first, the second performs no more merges and ends with no fewer
\* clusters
C13_RaisingThresholdMergesLess ==
    Len(runs) = 2 => /\ runs[2].merges <= runs[1].merges
                     /\ runs[2].clusters >= runs[1].clusters

\* a raised threshold that cost a merge
C13_Witness ==
    /\ Len(runs) = 2
    /\ runs[2].threshold # runs[1].threshold
    /\ runs[2].merges < runs[1].merges
    /\ runs[2].merges > 0

InUnit(x) == FGeq(x, Zero) /\ FGeq(One, x)

\* C14: the string similarity, the semantic similarity, the co-occurrence similarity
\* and the composite of a call of calculate_keyword_similarity each lie in [0, 1]
C14_SimilarityInUnit ==
    pc = "scored" => /\ InUnit(probe.forward.str)
                     /\ InUnit(probe.forward.sem)
                     /\ InUnit(probe.forward.cooc)
                     /\ InUnit(probe.forward.combined)

\* C15: string_similarity and calculate_keyword_similarity return the same value
\* when the two keywords are exchanged
C15_SimilaritySymmetric ==
    pc = "scored" => /\ probe.forward.str = probe.backward.str
                     /\ probe.forward.combined = probe.backward.combined

\* C16: normalizing a normalized keyword changes nothing
C16_NormalizeIdempotent ==
    pc = "normalized" => probe.twice = probe.once

\* a raw keyword with an upper-case letter and a character the normalizer drops,
\* of which something is left
C16_Witness ==
    /\ pc = "normalized"
    /\ "A" \in Range(probe.raw)
    /\ Range(probe.raw) \cap (Punctuation \cup {" "}) # {}
    /\ probe.once # <<>>
    /\ Len(probe.once) < Len(probe.raw)

----------------------------------------------------------------------------
(* Claims about the start of a run *)

\* what the listing of the remote folders at start came to, read off the calls that
\* loading left behind: "none" when the cache file was read and nothing was listed
ListingAtStart(cs) ==
    IF cs = <<>> \/ cs[1].op # "list" THEN "none"
    ELSE IF Truthy(cs[1].res) THEN "ok" ELSE "failed"

\* the mapping holds one entry for each name of a remote folder, with the key of a
\* remote folder of that name
RebuiltFrom(c, folders) ==
    /\ DOMAIN c = {f.name : f \in folders}
    /\ \A n \in DOMAIN c : \E f \in folders : f.name = n /\ KeyIn(c[n]) = f.key

\* C21: when the cache file exists and cannot be read at start and the remote store
\* answers the listing, loading ends with the cache rebuilt from the listing, one
\* entry for each listed folder name
C21_CorruptCacheRebuilt ==
    [][(pc = "start" /\ file.exists /\ ~file.ok /\ ListingAtStart(calls') = "ok")
          => (pc' = "loaded" /\ RebuiltFrom(cache', remote))]_vars

\* C22: when the listing the cache had to be built from failed, the run makes no
\* further remote call: no paper is fetched
C22_FailedListingStops ==
    [][(pc = "loaded" /\ ListingAtStart(calls) = "failed") => calls' = <<>>]_vars

----------------------------------------------------------------------------
(* Claims about the categories of keyword_classifier.py *)

\* name is a member of the cluster of the greatest length and, among the members of
\* that length, of the greatest number of occurrences in the cluster
Representative(name, keywords) ==
    /\ name \in Range(keywords)
    /\ \A kw \in Range(keywords) :
          /\ Len(kw) <= Len(name)
          /\ Len(kw) = Len(name) => Count(keywords, kw) <= Count(keywords, name)

\* C23: every category hierarchical_clustering returns is a cluster of
\* MIN_CLUSTER_SIZE keywords or more, under the name of one of its longest members,
\* which no member of that length occurs more often than
C23_RepresentativeNaming ==
    pc \in {"named", "kw_done"} =>
        \A name \in DOMAIN categories :
            \E c \in DOMAIN clusters :
                /\ Len(clusters[c]) >= MIN_CLUSTER_SIZE
                /\ categories[name] = Range(clusters[c])
                /\ Representative(name, clusters[c])

\* a category with a member shorter than its name, next to a keyword left alone
C23_Witness ==
    /\ pc = "named"
    /\ \E name \in DOMAIN categories : \E kw \in categories[name] : Len(kw) < Len(name)
    /\ \E c \in DOMAIN clusters : Len(clusters[c]) < MIN_CLUSTER_SIZE

\* the categories the clustering gave the keywords of document d
BaseOfDocument(d) ==
    UNION {Labels(BaseCategories(categories), kw) : kw \in Range(keywords_list[d])}

\* C24: assign_multi_category goes through the documents once, in order; an
\* iteration gives each keyword of its document the categories any keyword of the
\* document has at that moment and takes none away, so that every keyword keeps the
\* categories of the clustering and each keyword of a document gone through has at
\* least the categories the clustering gave the keywords of that document
C24_OnePassExpansion ==
    [][pc = "assigning" =>
          LET before == probe.keyword_categories
              after == probe'.keyword_categories
              doc_keywords == keywords_list[probe.doc + 1]
              doc_categories == UNION {Labels(before, kw) : kw \in Range(doc_keywords)}
          IN /\ probe'.doc = probe.doc + 1
             /\ (pc' = "assigned") <=> (probe'.doc = Len(keywords_list))
             /\ \A kw \in Range(doc_keywords) :
                   Labels(after, kw) = Labels(before, kw) \cup doc_categories
             /\ \A kw \in DOMAIN before :
                   /\ before[kw] \subseteq Labels(after, kw)
                   /\ Labels(BaseCategories(categories), kw) \subseteq Labels(after, kw)
             /\ \A d \in 1..probe'.doc : \A kw \in Range(keywords_list[d]) :
                   BaseOfDocument(d) \subseteq Labels(after, kw)]_vars

\* the pass is over, it gave a keyword a category the clustering had not given it,
\* and a second pass would give another keyword one more
C24_Witness ==
    /\ pc = "assigned"
    /\ \E kw \in DOMAIN probe.keyword_categories :
          probe.keyword_categories[kw] # Labels(BaseCategories(categories), kw)
    /\ ExpandedFrom(probe.keyword_categories, keywords_list, 0) # probe.keyword_categories

\* the answer is a failure of the remote store that may pass: 502 Bad Gateway
Transient(answer) == answer.status = 502

\* C25: fetch_items_with_retry calls the remote store max_retries times at most;
\* every call but the last met a transient error and was followed by a wait longer
\* than the one before; it returns what the first successful call returned, raises
\* at once on an error that is not transient, and fails after max_retries transient
\* errors
C25_BoundedRetry ==
    pc \in {"fetching", "fetch_done"} =>
        LET n == Len(probe.answers)
        IN /\ n <= max_retries
           /\ \A i \in 1..(n - 1) : Transient(probe.answers[i])
           /\ Len(probe.waits) = Cardinality({i \in 1..n : Transient(probe.answers[i])})
           /\ \A i \in 1..Len(probe.waits) : probe.waits[i] > 0
           /\ \A i \in 2..Len(probe.waits) : probe.waits[i] > probe.waits[i - 1]
           /\ pc = "fetch_done" =>
                 /\ probe.outcome = "returned" <=> (n > 0 /\ probe.answers[n].status = 200)
                 /\ probe.outcome = "raised" <=>
                       (n > 0 /\ probe.answers[n].status # 200
                              /\ ~Transient(probe.answers[n]))
                 /\ probe.outcome = "failed" <=>
                       (n = max_retries /\ \A i \in 1..n : Transient(probe.answers[i]))

----------------------------------------------------------------------------
(* Claims about the resolver over several resolutions *)

\* the cache is what a listing of the remote folders yields
CacheAgrees(c, r) ==
    \E pick \in ListingChoices(r) :
        c = IF script = "organize" THEN RefreshedCache(pick) ELSE ListedCache(pick)

\* no two remote folders have the same name under the same parent
NoDuplicateSiblings(r) ==
    \A f, g \in r : (f.name = g.name /\ f.parent = g.parent) => f.key = g.key

\* the first resolution of the run
FirstCall == IF prev.made THEN prev ELSE last

\* C26: in live mode, when the resolutions made so far started from a cache that
\* agreed with the remote folders and no create call failed, no two remote folders
\* have the same name under the same parent
C26_NoDuplicateSiblings ==
    (/\ ~DRY_RUN
     /\ last.made
     /\ CacheAgrees(FirstCall.cacheBefore, FirstCall.remoteBefore)
     /\ prev.failedAt = 0
     /\ last.failedAt = 0)
        => NoDuplicateSiblings(remote)

\* the identifiers a cache mapping stores: the keys, and for organize.py the parents
StoredIds(c) ==
    {KeyIn(c[n]) : n \in DOMAIN c}
        \cup (IF script = "organize"
              THEN {c[n].parent : n \in {m \in DOMAIN c : Truthy(c[m].parent)}}
              ELSE {})

\* the identifiers the remote store gave out, in a listing or as answer to a create
RemoteIds == {f.key : f \in remote}

\* C27: every identifier in the in-memory cache and in a readable cache file is one
\* the remote store gave out, none is a placeholder, and a resolution in dry-run
\* leaves the in-memory cache and the cache file as they were
C27_CacheValid ==
    /\ StoredIds(cache) \subseteq RemoteIds
    /\ (file.exists /\ file.ok) => StoredIds(file.data) \subseteq RemoteIds
    /\ \A id \in StoredIds(cache) : ~IsPlaceholder(id)
    /\ (file.exists /\ file.ok) => \A id \in StoredIds(file.data) : ~IsPlaceholder(id)
    /\ (DRY_RUN /\ last.made) => (cache = last.cacheBefore /\ file = last.fileBefore)

\* a dry-run resolution that returned a placeholder, after the cache was loaded
\* from a file holding folders
C27_Witness ==
    /\ DRY_RUN
    /\ last.made
    /\ IsPlaceholder(last.ret)
    /\ cache # EmptyDict
    /\ file.exists /\ file.ok

----------------------------------------------------------------------------
(* Claims about the processed tag *)

\* the entry of the answer the step just went through
Applied(done) == done[Len(done)]

\* C28: in live mode, when no remote call and no file write of the run has failed,
\* a paper for which the resolver returned a folder key carries the processed tag
\* once its entry of the answer has been gone through, whether or not it was a
\* member of the folder before; tags are never taken away, so that it carries the
\* tag when the run ends and the following run leaves it out
C28_DecidedPaperTagged ==
    [][(/\ pc = "apply"
        /\ ~DRY_RUN
        /\ faults' = 0
        /\ pos' = pos + 1
        /\ Applied(applied').id # 0
        /\ \E i \in 1..Len(Applied(applied').rets) :
              /\ Truthy(Applied(applied').rets[i])
              /\ ~IsPlaceholder(Applied(applied').rets[i]))
          => AUTO_TAG_NAME \in Range(items'[Applied(applied').id].tags)]_vars

----------------------------------------------------------------------------
(* Claims about the order of the union pass *)

\* the keywords joined to those of S by a chain of edges
RECURSIVE Reach(_, _)
Reach(S, edges) ==
    LET T == S \cup UNION {e \in edges : e \cap S # {}}
    IN IF T = S THEN S ELSE Reach(T, edges)

\* the connected components of the graph over the keywords
Components(keywords, edges) == {Reach({kw}, edges) : kw \in keywords}

\* every order of the elements of S
RECURSIVE Orders(_)
Orders(S) ==
    IF S = {} THEN {<<>>}
    ELSE UNION {{<<x>> \o rest : rest \in Orders(S \ {x})} : x \in S}

\* the union pass of hierarchical_clustering over pairs, in the order given
RECURSIVE UnionPass(_, _, _)
UnionPass(pairs, k2c, cl) ==
    IF pairs = <<>> THEN cl
    ELSE LET cluster1 == k2c[Head(pairs).kw1]
             cluster2 == k2c[Head(pairs).kw2]
         IN IF cluster1 # cluster2
            THEN UnionPass(Tail(pairs), Repointed(k2c, cl, cluster1, cluster2),
                           Merged(cl, cluster1, cluster2))
            ELSE UnionPass(Tail(pairs), k2c, cl)

\* the clusters as sets of keywords, without ids and without order
PartitionOf(cl) == {Range(cl[c]) : c \in DOMAIN cl}

\* C29: the clusters the union pass ends with are the connected components of the
\* graph whose edges are the gated pairs, and the pass over the same pairs in any
\* other order ends with the same sets of keywords
C29_OrderIndependent ==
    (pc \in {"named", "kw_done"} /\ runs # <<>>) =>
        LET gated == GatedPairs(similarity, threshold)
            edges == {{gated[i].kw1, gated[i].kw2} : i \in DOMAIN gated}
            components == Components(Range(keyword_list), edges)
            own == [kw \in Range(keyword_list) |->
                       (CHOOSE i \in 1..Len(keyword_list) : keyword_list[i] = kw) - 1]
            alone == [c \in 0..(Len(keyword_list) - 1) |-> <<keyword_list[c + 1]>>]
        IN /\ PartitionOf(clusters) = components
           /\ \A order \in Orders(DOMAIN gated) :
                 PartitionOf(UnionPass([i \in 1..Len(order) |-> gated[order[i]]], own, alone))
                     = components

\* two pairs of the same similarity passed the gate and three keywords or more ended
\* in one cluster
C29_Witness ==
    /\ pc = "named"
    /\ LET gated == GatedPairs(similarity, threshold)
       IN \E i, j \in DOMAIN gated : i # j /\ gated[i].sim = gated[j].sim
    /\ \E c \in DOMAIN clusters : Len(clusters[c]) >= 3

----------------------------------------------------------------------------
(* Claims about keyword_top20_analyzer.py *)

\* the sum of the values of a counter
RECURSIVE Total(_)
Total(counter) ==
    IF DOMAIN counter = {} THEN 0
    ELSE LET k == CHOOSE x \in DOMAIN counter : TRUE
         IN counter[k] + Total([x \in DOMAIN counter \ {k} |-> counter[x]])

\* C30: the counter apply_merge_to_all_keywords returns has the total frequency of
\* the counter it was given, its keys are the keywords the input keywords are mapped
\* to, and the frequency of each is the sum of the frequencies of the input keywords
\* mapped to it
C30_FrequencyConserved ==
    pc = "merged" =>
        LET target(k) == NormalizedOf(probe.variant_to_normalized, k)
            input == probe.keyword_counter
            merged == probe.merged_counter
        IN /\ Total(merged) = Total(input)
           /\ DOMAIN merged = {target(k) : k \in DOMAIN input}
           /\ \A t \in DOMAIN merged :
                 merged[t] = Total([k \in {x \in DOMAIN input : target(x) = t} |-> input[k]])

\* three keywords were merged into one, two of them by the variants of an item and
\* one by a rule
C30_Witness ==
    /\ pc = "merged"
    /\ Cardinality(DOMAIN probe.keyword_counter) = 3
    /\ Cardinality(DOMAIN probe.merged_counter) = 1
    /\ probe.merge_result.merge_rules # <<>>
    /\ Truthy(probe.merge_result.merge_rules[1].from)
    /\ Truthy(probe.merge_result.merge_rules[1].to)
    /\ probe.merge_result.merge_rules[1].from \in DOMAIN probe.keyword_counter
    /\ probe.merge_result.merge_rules[1].from
          \notin {Lower(v) : v \in UNION {Range(probe.merge_result.normalized_keywords[i].variants) :
                                            i \in DOMAIN probe.merge_result.normalized_keywords}}

====
